---- MODULE Spec2Model ----
(***************************************************************************)
(* Retrieval & Synchronization Engine of acre-notebook-lm.                 *)
(*                                                                         *)
(* Part 1: the Airtable pull-sync, in its two implementations:             *)
(*   "lib"   - syncAllTables / syncTable        (src/lib/airtable/sync.ts) *)
(*   "route" - POST / fetchAllTableRecords / syncTableToSupabase           *)
(*             (the /api/airtable sync route)                              *)
(* Part 2: the n8n webhook dispatcher, N8nClient.trigger.                  *)
(* Part 3: the retrieval query get_rag_context.                            *)
(***************************************************************************)
EXTENDS Integers, Sequences, FiniteSets, TLC

\* ------------------------------------------------------------------ bounds
MaxRecords == 2
MaxRuns == 2
MaxFaults == 1
MaxPagingFaults == 1
MaxRetriesOption == 3
MaxTriggers == 1
MaxChunks == 3
MaxPushes == 2
MaxEdits == 1

\* ------------------------------------------------------- program constants
PageSize == 100
DefaultRetries == 3
DefaultTimeout == 30000
ChatThreshold == 70
ChatTopK == 5
ChatMaxTokens == 4000

BaseId == "base"

\* The base schema, in the order the schema call lists the tables.
TableIds == <<"tblA", "tblB">>

TableName(t) == IF t = "tblA" THEN "A" ELSE "B"

TableSet == {TableIds[i] : i \in 1..Len(TableIds)}

\* Sizes of the external tables in the small scenarios and in the paginated ones.
SmallSizes == 0..MaxRecords

PagingSizes == {100, 101, 120}

\* The `tables` option / request body field: <<>> is "not given".
FilterChoices == {<<>>, <<{"B"}>>, <<{}>>}

VARIABLES
  opts,         \* options of the sync call: implementation, embedRecords, tables filter
  src,          \* the external Airtable base: table id -> sequence of field versions
  store,        \* rows of airtable_records, in insertion order
  idSeq,        \* generator of default primary keys of the store
  statusRows,   \* rows of data_source_status
  now,          \* clock read by new Date()
  pc,           \* position of the sync run
  runsLeft,
  faultsLeft,   \* transient failures still to come
  flaky,        \* the calls that can fail transiently
  malformed,    \* <<table, record id>> pairs the store rejects every time
  tablesToSync, \* tables selected for the run, in schema order
  tIdx,         \* index of the table being synced
  offset,       \* fetchAllTableRecords: the offset token, <<>> when undefined
  allRecords,   \* records fetched so far for the current table
  requests,     \* the page requests of this run: table and offset passed
  rIdx,         \* index of the record being processed
  embedding,    \* syncTable: the local `embedding`, <<>> when undefined
  tres,         \* per-table result {synced, errors}
  result,       \* the SyncResult under construction
  outcome,      \* "none" | "returned" | "http500"
  edited,       \* the external base was edited since the last run started
  prev,         \* what the previous run left: done, returned, clean, errors, store, edited
  tableFaults,  \* failures met in this run, per table
  fetchFailed,  \* tables whose fetch failed in this run
  upsertCalls,  \* upserts issued in this run, per table
  touched,      \* record ids whose processing started, current table
  statusFailed  \* the status upsert of this run returned an error

syncVars == <<opts, src, malformed, flaky, store, idSeq, statusRows, now, pc, runsLeft, faultsLeft, tablesToSync, tIdx, offset, allRecords, requests, rIdx,
              embedding, tres, result, outcome, edited, prev, tableFaults,
              fetchFailed, upsertCalls, touched,
                 statusFailed>>

VARIABLES
  cfg,          \* N8nClient fields: baseUrl, maxRetries, timeout
  tpc,          \* position of the trigger call
  event,        \* the event being delivered
  attempt,      \* trigger: attempt
  lastError,    \* trigger: lastError, <<>> when null
  response,     \* the body makeRequest returned
  tResult,      \* what trigger returned
  inFlight,     \* HTTP calls of the client that are open
  trace,        \* what the current trigger call did, in order
  webhook_logs, \* rows of webhook_logs
  triggersLeft, \* trigger calls still to come
  logsBefore,   \* number of webhook_logs rows when the current call began
  elapsed       \* ms the open HTTP call has been pending

trigVars == <<cfg, tpc, event, attempt, lastError, response, tResult, inFlight,
              trace, webhook_logs, triggersLeft, logsBefore, elapsed>>

\* --- retrieval (get_rag_context over the three corpora)
VARIABLES
  chunks,   \* the embedded rows of document_chunks, meeting_chunks, airtable_records
  ragCall,  \* <<>> or <<the arguments of the last retrieval>>
  ragOut    \* the rows the last retrieval returned, in order

ragVars == <<chunks, ragCall, ragOut>>

\* --- chat request (POST /api/chat)
VARIABLES
  req,             \* the request being handled
  cpc,             \* where the handler is
  ragCandidates,   \* the ranked candidates of the retrieval, before the budget
  ragResult,       \* ragResult.chunks
  ragContext,      \* the context text, as its parts in order; <<>> is ''
  sourceCitations, \* the citations of the answer
  systemMessage,   \* the system message handed to the model
  answer,          \* <<>> or <<the response>>
  ragFailed        \* the retrieval of this request threw

chatVars == <<req, cpc, ragCandidates, ragResult, ragContext, sourceCitations,
              systemMessage, answer, ragFailed>>

\* --- configuration (process.env)
VARIABLES
  env   \* which of the required settings are present

\* --- push (pushToAirtable)
VARIABLES
  ppc,         \* where the push is
  pushReq,     \* <<>> or <<the arguments of the call>>
  pushCalls,   \* the calls made on the Airtable client by the current push
  pushResult,  \* <<>> or <<what the push returned>>
  pushesLeft   \* pushes still to come

pushVars == <<ppc, pushReq, pushCalls, pushResult, pushesLeft>>

\* --- two sync runs over one table at the same time
VARIABLES
  syncers,   \* per run: its options, where it is, the records it fetched
  lastWrite  \* per record id: <<>> or <<the payload of the last upsert>>

concVars == <<syncers, lastWrite>>

\* --- the embedding service (generateEmbedding, generateEmbeddings)
VARIABLES
  embedJob   \* the generateEmbeddings call in progress and its upstream calls

\* --- maintenance of one table (deleteSyncedRecords, reembedTable)
VARIABLES
  maint,     \* the maintenance call in progress
  maintLeft  \* maintenance calls still to come

maintVars == <<embedJob, maint, maintLeft>>

otherThanSync == <<trigVars, ragVars, chatVars, env, pushVars, concVars, maintVars>>

otherThanTrigger == <<syncVars, ragVars, chatVars, env, pushVars, concVars, maintVars>>

otherThanRetrieval == <<syncVars, trigVars, chatVars, env, pushVars, concVars, maintVars>>

otherThanChat == <<syncVars, trigVars, ragCall, ragOut, env, pushVars, concVars, maintVars>>

otherThanPush == <<syncVars, trigVars, ragVars, chatVars, env, concVars, maintVars>>

vars == <<syncVars, trigVars, ragVars, chatVars, env, pushVars, concVars, maintVars>>

Settings == {"AIRTABLE_API_KEY", "AIRTABLE_BASE_ID", "NEXT_PUBLIC_SUPABASE_URL",
             "SUPABASE_SERVICE_ROLE_KEY"}

\* Every setting is present.
EnvConfigured == env = Settings

\* No push.
PushIdle ==
  /\ ppc = "idle"
  /\ pushReq = <<>>
  /\ pushCalls = <<>>
  /\ pushResult = <<>>
  /\ pushesLeft = 0

\* No embedding call, no maintenance call.
NoEmbedJob == [calls |-> <<>>, upstream |-> <<>>, batch |-> <<>>]

NoMaint == [op |-> "none", at |-> "idle", table |-> "", readOk |-> FALSE,
            records |-> <<>>, idx |-> 0, payload |-> <<>>, result |-> <<>>,
            before |-> <<>>, updatedIds |-> {}, ret |-> <<>>]

MaintIdle ==
  /\ embedJob = NoEmbedJob
  /\ maint = NoMaint
  /\ maintLeft = 0

\* No concurrent runs.
ConcIdle ==
  /\ syncers = <<>>
  /\ lastWrite = <<>>

\* No chat request.
ChatIdle ==
  /\ req = <<>>
  /\ cpc = "idle"
  /\ ragCandidates = <<>>
  /\ ragResult = <<>>
  /\ ragContext = <<>>
  /\ sourceCitations = <<>>
  /\ systemMessage = <<>>
  /\ answer = <<>>
  /\ ragFailed = FALSE

\* No chunk stored, no retrieval made.
RetrievalIdle ==
  /\ chunks = {}
  /\ ragCall = <<>>
  /\ ragOut = <<>>

\* The dispatcher before any trigger, with no trigger to come.
TriggerIdle ==
  /\ cfg = [baseUrl |-> "", maxRetries |-> 0, timeout |-> 0]
  /\ tpc = "idle"
  /\ event = <<>>
  /\ attempt = 0
  /\ lastError = <<>>
  /\ response = <<>>
  /\ tResult = <<>>
  /\ inFlight = 0
  /\ trace = <<>>
  /\ webhook_logs = <<>>
  /\ triggersLeft = 0
  /\ logsBefore = 0
  /\ elapsed = 0

\* ------------------------------------------------------------------ text
\* A text is a sequence of runs, each n copies of the character ch, with no
\* two neighbouring runs of the same character.
CharCeiling == 8000

RECURSIVE TextLen(_)
TextLen(text) == IF text = <<>> THEN 0 ELSE Head(text).n + TextLen(Tail(text))

\* text.slice(0, k)
RECURSIVE slice(_, _)
slice(text, k) ==
  IF text = <<>> \/ k = 0 THEN <<>>
  ELSE IF Head(text).n <= k
       THEN <<Head(text)>> \o slice(Tail(text), k - Head(text).n)
       ELSE <<[ch |-> Head(text).ch, n |-> k]>>

\* Adjacent runs of one character are one run.
RECURSIVE Runs(_)
Runs(text) ==
  IF Len(text) < 2 THEN text
  ELSE IF text[1].ch = text[2].ch
       THEN Runs(<<[ch |-> text[1].ch, n |-> text[1].n + text[2].n]>> \o SubSeq(text, 3, Len(text)))
       ELSE <<text[1]>> \o Runs(Tail(text))

\* text.replace(/\n/g, ' ')
replace(text) ==
  Runs([i \in 1..Len(text) |-> [text[i] EXCEPT !.ch = IF @ = "\n" THEN " " ELSE @]])

\* const processedText = text.slice(0, 8000).replace(/\n/g, ' ')
processedText(text) == replace(slice(text, CharCeiling))

\* What the upstream model answers for a value: the vector, and the usage when
\* it reports one.
UpstreamReplies(value) ==
  {[embedding |-> <<"vec", value>>, usage |-> u] : u \in {<<>>, <<TextLen(value)>>}}

\* return { embedding, tokenCount: usage?.tokens || 0 }
EmbeddingResult(reply) ==
  [embedding |-> reply.embedding,
   tokenCount |-> IF reply.usage = <<>> THEN 0 ELSE reply.usage[1]]

\* The text of a sequence of characters, and of two texts put together.
Text(chars) == Runs([i \in 1..Len(chars) |-> [ch |-> chars[i], n |-> 1]])

Cat(a, b) == Runs(a \o b)

\* parts.join(sep)
RECURSIVE Join(_, _)
Join(parts, sep) ==
  IF parts = <<>> THEN <<>>
  ELSE IF Len(parts) = 1 THEN parts[1]
  ELSE Cat(Cat(parts[1], sep), Join(Tail(parts), sep))

\* The values of a record's fields: null, a string, an array of strings, a
\* number of one digit. Table names and field keys are one character long.
NullValue == [kind |-> "null", text |-> <<>>, items |-> <<>>, n |-> 0]

StringValue(text) == [kind |-> "string", text |-> text, items |-> <<>>, n |-> 0]

ArrayValue(items) == [kind |-> "array", text |-> <<>>, items |-> items, n |-> 0]

NumberValue(n) == [kind |-> "number", text |-> <<>>, items |-> <<>>, n |-> n]

Digit(n) == CASE n = 0 -> "0" [] n = 1 -> "1" [] n = 2 -> "2" [] n = 3 -> "3"
              [] n = 4 -> "4" [] n = 5 -> "5" [] n = 6 -> "6" [] n = 7 -> "7"
              [] n = 8 -> "8" [] OTHER -> "9"

\* The fields of a record of the source at version v of its content, in the
\* order Object.entries lists them.
FieldsOf(v) ==
  CASE v = 0 -> <<[key |-> "v", value |-> NumberValue(0)]>>
    [] v = 1 -> <<[key |-> "v", value |-> NumberValue(0)],
                  [key |-> "w", value |-> NullValue]>>
    [] v = 2 -> <<[key |-> "v", value |-> ArrayValue(<<Text(<<"p">>), Text(<<"q">>)>>)]>>
    [] v = 3 -> <<[key |-> "v", value |-> StringValue(Text(<<"p", ",", " ", "q">>))]>>
    [] OTHER -> <<[key |-> "v", value |-> NumberValue(v)]>>

\* ----------------------------------------------------------- pure helpers
Min(a, b) == IF a < b THEN a ELSE b

RECURSIVE SeqSum(_)
SeqSum(s) == IF s = <<>> THEN 0 ELSE Head(s) + SeqSum(Tail(s))

\* The record with id r of table t as the source returns it.
SourceRecord(t, r) == [id |-> r, createdTime |-> 0, fields |-> FieldsOf(src[t][r])]

\* One page of listRecords: at most PageSize records after the position the
\* token encodes, and a token for the rest when records remain.
SourcePage(t, tok) ==
  LET start == IF tok = <<>> THEN 0 ELSE tok[1]
      n     == Len(src[t])
      last  == Min(start + PageSize, n)
  IN [records |-> [i \in 1..(last - start) |-> SourceRecord(t, start + i)],
      offset  |-> IF last < n THEN <<last>> ELSE <<>>]

\* Number of pages the source serves for a table of n records.
PagesOf(n) == IF n = 0 THEN 1 ELSE (n + PageSize - 1) \div PageSize

\* The text recordToText pushes after "key: " for a value that is not null:
\* the string itself, value.join(', '), String(value).
Rendered(value) ==
  CASE value.kind = "string" -> value.text
    [] value.kind = "array" -> Join(value.items, Text(<<",", " ">>))
    [] OTHER -> Text(<<Digit(value.n)>>)

\* recordToText: "Table: name", then "key: value" for every field that is not
\* null, joined by newlines.
recordToText(record, tableName) ==
  LET kept  == SelectSeq(record.fields, LAMBDA f : f.value.kind # "null")
      parts == <<Cat(Text(<<"T", "a", "b", "l", "e", ":", " ">>), Text(<<tableName>>))>> \o
               [i \in 1..Len(kept) |->
                  Cat(Text(<<kept[i].key, ":", " ">>), Rendered(kept[i].value))]
  IN Join(parts, Text(<<"\n">>))

\* generateEmbedding: the vector of the processed text, and the token count
\* of the usage the upstream reports (<<>> when it reports none).
generateEmbedding(text, usage) ==
  EmbeddingResult([embedding |-> <<"vec", processedText(text)>>, usage |-> usage])

\* The conflict target handed to upsert.
OnConflict == {"external_id", "base_id", "table_id"}

SameKey(a, b, cols) == \A c \in cols : a[c] = b[c]

\* Columns of an airtable_records row.
RowCols == {"id", "external_id", "source", "base_id", "table_id", "table_name",
            "fields", "created_at_source", "synced_at", "embedding"}

\* Store upsert as a plain insert: the payload is always appended.
UpsertAlwaysInsert(rows, payload, cols, defaults) ==
  Append(rows, [c \in RowCols |->
     IF c \in DOMAIN payload THEN payload[c] ELSE defaults[c]])

\* Store upsert that leaves a row with the same conflict key as it is.
UpsertKeepExisting(rows, payload, cols, defaults) ==
  IF \E i \in 1..Len(rows) : SameKey(rows[i], payload, cols)
  THEN rows
  ELSE Append(rows, [c \in RowCols |->
          IF c \in DOMAIN payload THEN payload[c] ELSE defaults[c]])

\* Store upsert (INSERT ... ON CONFLICT (cols) DO UPDATE): the row with the
\* same conflict key takes the payload's columns and keeps its other columns;
\* without such a row the payload is inserted with the column defaults.
Upsert(rows, payload, cols, defaults) ==
  LET hit == {i \in 1..Len(rows) : SameKey(rows[i], payload, cols)}
  IN IF hit = {}
     THEN Append(rows, [c \in RowCols |->
             IF c \in DOMAIN payload THEN payload[c] ELSE defaults[c]])
     ELSE [i \in 1..Len(rows) |->
             IF i \in hit
             THEN [c \in RowCols |->
                    IF c \in DOMAIN payload THEN payload[c] ELSE rows[i][c]]
             ELSE rows[i]]

RowDefaults == [c \in RowCols |->
                 IF c = "id" THEN <<"uuid", idSeq>> ELSE <<>>]

\* recordData of syncTableToSupabase.
RouteRecordData(t, record) ==
  [external_id |-> record.id, source |-> "airtable", base_id |-> BaseId,
   table_id |-> t, table_name |-> TableName(t), fields |-> record.fields,
   created_at_source |-> record.createdTime, synced_at |-> now]

\* recordData of syncTable; the embedding column only when one was computed.
LibRecordData(t, record, emb) ==
  LET base == [id |-> <<BaseId, t, record.id>>,
               external_id |-> record.id, source |-> "airtable",
               base_id |-> BaseId, table_id |-> t, table_name |-> TableName(t),
               fields |-> record.fields,
               created_at_source |-> record.createdTime, synced_at |-> now]
  IN IF emb = <<>> THEN base
     ELSE [c \in DOMAIN base \cup {"embedding"} |->
             IF c = "embedding" THEN emb ELSE base[c]]

\* tables.filter(t => filter.includes(t.name) || filter.includes(t.id))
FilterTables(filter) ==
  IF filter = <<>> THEN TableIds
  ELSE SelectSeq(TableIds, LAMBDA t : t \in filter[1] \/ TableName(t) \in filter[1])

\* --------------------------------------------------------- result helpers
EmptyResult == [success |-> TRUE, tables |-> <<>>, totalRecords |-> 0, errors |-> <<>>]

EmptyTableResult == [synced |-> 0, errors |-> <<>>]

NoFaults == [t \in TableSet |-> 0]

CurTable == tablesToSync[tIdx]

CurRecord == allRecords[rIdx]

\* A table entry whose status looks at the synced count.
TableEntryBySynced(t, tr) ==
  [name   |-> TableName(t),
   synced |-> tr.synced,
   status |-> IF tr.synced > 0 \/ Len(tr.errors) = 0 THEN "success" ELSE "error",
   error  |-> IF Len(tr.errors) > 0 THEN <<tr.errors[1]>> ELSE <<>>]

\* Entry pushed onto result.tables for a table whose per-table sync returned tr.
TableEntry(t, tr) ==
  [name   |-> TableName(t),
   synced |-> tr.synced,
   status |-> IF Len(tr.errors) = 0 THEN "success" ELSE "error",
   error  |-> IF Len(tr.errors) > 0 THEN <<tr.errors[1]>> ELSE <<>>]

\* result after a table's entry, count and errors have been added.
PushTable(res, t, tr) ==
  [res EXCEPT !.tables = Append(@, TableEntry(t, tr)),
              !.totalRecords = @ + tr.synced,
              !.errors = @ \o tr.errors]

\* Overall success as "every table succeeded".
OverallSuccessAll(tables) == \A i \in 1..Len(tables) : tables[i].status = "success"

\* result.tables.some(t => t.status === 'success')
OverallSuccess(tables) == \E i \in 1..Len(tables) : tables[i].status = "success"

\* The data_source_status row of a finished run.
StatusRow(res) ==
  [source |-> "airtable", last_sync |-> now,
   status |-> IF res.success THEN "connected" ELSE "error",
   item_count |-> res.totalRecords,
   last_error |-> IF Len(res.errors) > 0 THEN <<res.errors[1]>> ELSE <<>>,
   tables_synced |-> Len(res.tables)]

\* The status write as a plain insert.
InsertStatus(rows, row) == Append(rows, row)

\* upsert(..., { onConflict: 'source' }) on data_source_status.
UpsertStatus(rows, row) ==
  IF \E i \in 1..Len(rows) : rows[i].source = row.source
  THEN [i \in 1..Len(rows) |-> IF rows[i].source = row.source THEN row ELSE rows[i]]
  ELSE Append(rows, row)

\* ------------------------------------------------------------------- init
NoPrev == [done |-> FALSE, returned |-> FALSE, clean |-> FALSE, errors |-> <<>>,
           store |-> <<>>, edited |-> FALSE]

\* The sync calls and the environment a behaviour starts from, over the
\* stores given.
InitRunOver(stores, bases, calls, bad, unreliable, budget, runs) ==
  /\ opts \in calls
  /\ src \in bases
  /\ malformed \in bad
  /\ idSeq = 1
  /\ statusRows = <<>>
  /\ now = 0
  /\ store \in stores
  /\ pc = "idle"
  /\ runsLeft = runs
  /\ faultsLeft = budget
  /\ flaky = unreliable
  /\ tablesToSync = <<>>
  /\ tIdx = 0
  /\ offset = <<>>
  /\ allRecords = <<>>
  /\ requests = <<>>
  /\ rIdx = 0
  /\ embedding = <<>>
  /\ tres = EmptyTableResult
  /\ result = EmptyResult
  /\ outcome = "none"
  /\ edited = FALSE
  /\ prev = NoPrev
  /\ tableFaults = NoFaults
  /\ fetchFailed = {}
  /\ upsertCalls = NoFaults
  /\ touched = <<>>
  /\ statusFailed = FALSE

\* The same over the empty store.
InitRun(bases, calls, bad, unreliable, budget, runs) ==
  InitRunOver({<<>>}, bases, calls, bad, unreliable, budget, runs)

\* The external calls of a sync run.
AllCalls == {"schema", "fetch", "embed", "upsert", "status"}

\* An external base with the given number of records per table.
Base(f) == [t \in TableSet |-> [r \in 1..f[t] |-> 0]]

\* The sync calls: embedRecords is an option of syncAllTables only.
Calls(filters) ==
  {o \in [impl : {"lib", "route"}, embedRecords : BOOLEAN, tables : filters] :
     o.impl = "route" => ~o.embedRecords}

InitSync ==
  InitRun({Base(f) : f \in {g \in [TableSet -> SmallSizes] : g["tblB"] <= 1}},
          Calls(FilterChoices),
          {{}},
          AllCalls, MaxFaults, MaxRuns)
  /\ TriggerIdle
  /\ RetrievalIdle
  /\ ChatIdle
  /\ EnvConfigured
  /\ PushIdle
  /\ ConcIdle
  /\ MaintIdle

\* An error message: what failed, for which table and record (0: no record).
Err(kind, t, r) == [kind |-> kind, table |-> TableName(t), rec |-> r]

SyncFailedErr == [kind |-> "Sync failed", table |-> "", rec |-> 0]

\* ---------------------------------------------------------------- actions
\* A caller invokes the sync (syncAllTables, or POST on the sync route).
\* A check of the settings that never finds one missing.
ConfigNeverMissing == FALSE

\* The checks at the start of a sync: the Airtable key and base id, then the
\* store's URL and key.
ConfigMissing == env # Settings

\* A sync is called without a setting it needs: POST answers 500 before it
\* creates a client; syncAllTables throws from getAirtableClient or
\* getSupabaseAdmin, which it calls before its try block.
ConfigErr ==
  /\ pc \in {"idle", "done"}
  /\ runsLeft > 0
  /\ ConfigMissing
  /\ runsLeft' = runsLeft - 1
  /\ pc' = "done"
  /\ outcome' = IF opts.impl = "lib" THEN "thrown" ELSE "http500"
  /\ result' = EmptyResult
  /\ tablesToSync' = <<>>
  /\ tIdx' = 0
  /\ offset' = <<>>
  /\ allRecords' = <<>>
  /\ requests' = <<>>
  /\ rIdx' = 0
  /\ embedding' = <<>>
  /\ tres' = EmptyTableResult
  /\ prev' = [done   |-> pc = "done",
              returned |-> pc = "done" /\ outcome = "returned" /\ tIdx > 0,
              clean  |-> pc = "done" /\ outcome = "returned" /\ result.errors = <<>>,
              errors |-> IF pc = "done" THEN result.errors ELSE <<>>,
              store  |-> store,
              edited |-> edited]
  /\ edited' = FALSE
  /\ tableFaults' = NoFaults
  /\ fetchFailed' = {}
  /\ upsertCalls' = NoFaults
  /\ touched' = <<>>
  /\ statusFailed' = FALSE
  /\ UNCHANGED <<opts, flaky, src, malformed, store, idSeq, statusRows, faultsLeft, now>>
  /\ UNCHANGED otherThanSync

\* A sync is called with every setting present.
StartRun ==
  /\ pc \in {"idle", "done"}
  /\ runsLeft > 0
  /\ ~ConfigMissing
  /\ runsLeft' = runsLeft - 1
  /\ now' = now + 1
  /\ pc' = "schema"
  /\ result' = EmptyResult
  /\ outcome' = "none"
  /\ tablesToSync' = <<>>
  /\ tIdx' = 0
  /\ offset' = <<>>
  /\ allRecords' = <<>>
  /\ requests' = <<>>
  /\ rIdx' = 0
  /\ embedding' = <<>>
  /\ tres' = EmptyTableResult
  /\ prev' = [done   |-> pc = "done",
              returned |-> pc = "done" /\ outcome = "returned" /\ tIdx > 0,
              clean  |-> pc = "done" /\ outcome = "returned" /\ result.errors = <<>>,
              errors |-> IF pc = "done" THEN result.errors ELSE <<>>,
              store  |-> store,
              edited |-> edited]
  /\ edited' = FALSE
  /\ tableFaults' = NoFaults
  /\ fetchFailed' = {}
  /\ upsertCalls' = NoFaults
  /\ touched' = <<>>
  /\ statusFailed' = FALSE
  /\ UNCHANGED <<opts, flaky, src, malformed, store, idSeq, statusRows, faultsLeft>>
  /\ UNCHANGED otherThanSync

\* getBaseSchema / fetchBaseSchema answered: the tables are filtered.
SchemaOk ==
  /\ pc = "schema"
  /\ tablesToSync' = FilterTables(opts.tables)
  /\ tIdx' = 1
  /\ pc' = "loop"
  /\ UNCHANGED <<opts, flaky, src, malformed, store, idSeq, statusRows, now, runsLeft, faultsLeft, offset, allRecords, requests, rIdx, embedding, tres,
                 result, outcome, edited, prev, tableFaults, fetchFailed,
                 upsertCalls, touched,
                 statusFailed>>
  /\ UNCHANGED otherThanSync

\* The schema call failed: syncAllTables returns success = false with one
\* error and writes no status row; the route answers 500.
SchemaErr ==
  /\ pc = "schema"
  /\ "schema" \in flaky /\ faultsLeft > 0
  /\ faultsLeft' = faultsLeft - 1
  /\ pc' = "done"
  /\ IF opts.impl = "lib"
     THEN /\ result' = [result EXCEPT !.success = FALSE,
                                      !.errors = Append(@, SyncFailedErr)]
          /\ outcome' = "returned"
     ELSE /\ result' = result
          /\ outcome' = "http500"
  /\ UNCHANGED <<opts, flaky, src, malformed, store, idSeq, statusRows, now, runsLeft,
                 tablesToSync, tIdx, offset, allRecords, requests, rIdx, embedding,
                 tres, edited, prev, tableFaults, fetchFailed, upsertCalls,
                 touched,
                 statusFailed>>
  /\ UNCHANGED otherThanSync

\* for (const table of tablesToSync): the next table's fetch starts.
ForEachTable ==
  /\ pc = "loop"
  /\ tIdx <= Len(tablesToSync)
  /\ pc' = "fetch"
  /\ offset' = <<>>
  /\ allRecords' = <<>>
  /\ rIdx' = 0
  /\ embedding' = <<>>
  /\ tres' = EmptyTableResult
  /\ touched' = <<>>
  /\ UNCHANGED statusFailed
  /\ UNCHANGED <<opts, flaky, src, malformed, store, idSeq, statusRows, now, runsLeft,
                 faultsLeft, tablesToSync, tIdx, requests, result, outcome, edited,
                 prev, tableFaults, fetchFailed, upsertCalls>>
  /\ UNCHANGED otherThanSync

\* The loop over the tables is over: overall success is computed and the
\* status upsert is issued.
TablesDone ==
  /\ pc = "loop"
  /\ tIdx > Len(tablesToSync)
  /\ result' = [result EXCEPT !.success = OverallSuccess(result.tables)]
  /\ pc' = "status"
  /\ UNCHANGED <<opts, flaky, src, malformed, store, idSeq, statusRows, now, runsLeft, faultsLeft, tablesToSync, tIdx, offset, allRecords, requests, rIdx,
                 embedding, tres, outcome, edited, prev, tableFaults, fetchFailed,
                 upsertCalls, touched,
                 statusFailed>>
  /\ UNCHANGED otherThanSync

\* The fetch loop, were it to stop after its first page.
StopAfterFirstPage(tok) == FALSE

\* do { ... } while (offset): another page is requested while a token is held.
MorePages(tok) == tok # <<>>

\* fetchAllTableRecords, one page answered: its records are kept and its
\* token becomes the next request's offset; a page without a token ends the
\* fetch and syncTableToSupabase starts on the records.
FetchPageOk ==
  /\ pc = "fetch"
  /\ opts.impl = "route"
  /\ LET page == SourcePage(CurTable, offset)
     IN /\ requests' = Append(requests, [table |-> CurTable, offset |-> offset])
        /\ allRecords' = allRecords \o page.records
        /\ offset' = page.offset
        /\ pc' = IF MorePages(page.offset) THEN "fetch" ELSE "records"
  /\ rIdx' = 1
  /\ tres' = EmptyTableResult
  /\ UNCHANGED <<opts, flaky, src, malformed, store, idSeq, statusRows, now, runsLeft, faultsLeft, tablesToSync, tIdx, embedding, result, outcome, edited,
                 prev, tableFaults, fetchFailed, upsertCalls, touched,
                 statusFailed>>
  /\ UNCHANGED otherThanSync

\* A failed page request, were the fetch to swallow it and hand over the
\* records of the pages fetched before it.
FetchPageErrKeepsPages ==
  /\ pc = "fetch"
  /\ opts.impl = "route"
  /\ "fetch" \in flaky /\ faultsLeft > 0
  /\ faultsLeft' = faultsLeft - 1
  /\ requests' = Append(requests, [table |-> CurTable, offset |-> offset])
  /\ rIdx' = 1
  /\ tres' = EmptyTableResult
  /\ pc' = "records"
  /\ tableFaults' = [tableFaults EXCEPT ![CurTable] = @ + 1]
  /\ fetchFailed' = fetchFailed \cup {CurTable}
  /\ UNCHANGED <<opts, src, malformed, flaky, store, idSeq, statusRows, now, runsLeft,
                 tablesToSync, tIdx, offset, allRecords, embedding, result, outcome,
                 edited, prev, upsertCalls, touched,
                 statusFailed>>
  /\ UNCHANGED otherThanSync

\* fetchAllTableRecords, one page request failed: the error leaves the fetch
\* and is caught by POST's per-table catch.
FetchPageErr ==
  /\ pc = "fetch"
  /\ opts.impl = "route"
  /\ "fetch" \in flaky /\ faultsLeft > 0
  /\ faultsLeft' = faultsLeft - 1
  /\ requests' = Append(requests, [table |-> CurTable, offset |-> offset])
  /\ result' = [result EXCEPT
        !.tables = Append(@, [name |-> TableName(CurTable), synced |-> 0,
                              status |-> "error",
                              error |-> <<Err("Airtable API error", CurTable, 0)>>]),
        !.errors = Append(@, Err("Failed to sync table", CurTable, 0))]
  /\ tIdx' = tIdx + 1
  /\ pc' = "loop"
  /\ tableFaults' = [tableFaults EXCEPT ![CurTable] = @ + 1]
  /\ fetchFailed' = fetchFailed \cup {CurTable}
  /\ UNCHANGED <<opts, flaky, src, malformed, store, idSeq, statusRows, now, runsLeft,
                 tablesToSync, offset, allRecords, rIdx, embedding, tres, outcome,
                 edited, prev, upsertCalls, touched,
                 statusFailed>>
  /\ UNCHANGED otherThanSync

\* syncTable: client.getAllRecords(table.id) returned every record.
GetAllRecordsOk ==
  /\ pc = "fetch"
  /\ opts.impl = "lib"
  /\ allRecords' = [r \in 1..Len(src[CurTable]) |-> SourceRecord(CurTable, r)]
  /\ rIdx' = 1
  /\ tres' = EmptyTableResult
  /\ pc' = "records"
  /\ UNCHANGED <<opts, flaky, src, malformed, store, idSeq, statusRows, now, runsLeft, faultsLeft, tablesToSync, tIdx, offset, requests, embedding, result,
                 outcome, edited, prev, tableFaults, fetchFailed, upsertCalls,
                 touched,
                 statusFailed>>
  /\ UNCHANGED otherThanSync

\* syncTable: getAllRecords threw; the outer catch records the error,
\* syncTable returns and syncAllTables pushes the table's entry.
GetAllRecordsErr ==
  /\ pc = "fetch"
  /\ opts.impl = "lib"
  /\ "fetch" \in flaky /\ faultsLeft > 0
  /\ faultsLeft' = faultsLeft - 1
  /\ LET tr == [synced |-> 0, errors |-> <<Err("Failed to fetch table", CurTable, 0)>>]
     IN /\ tres' = tr
        /\ result' = PushTable(result, CurTable, tr)
  /\ tIdx' = tIdx + 1
  /\ pc' = "loop"
  /\ tableFaults' = [tableFaults EXCEPT ![CurTable] = @ + 1]
  /\ fetchFailed' = fetchFailed \cup {CurTable}
  /\ UNCHANGED <<opts, flaky, src, malformed, store, idSeq, statusRows, now, runsLeft,
                 tablesToSync, offset, allRecords, requests, rIdx, embedding, outcome,
                 edited, prev, upsertCalls, touched,
                 statusFailed>>
  /\ UNCHANGED otherThanSync

\* for (const record of records): the next record's processing starts.
ForEachRecord ==
  /\ pc = "records"
  /\ rIdx <= Len(allRecords)
  /\ touched' = Append(touched, CurRecord.id)
  /\ UNCHANGED statusFailed
  /\ embedding' = <<>>
  /\ pc' = IF opts.impl = "lib" /\ opts.embedRecords THEN "embed" ELSE "upsert"
  /\ UNCHANGED <<opts, flaky, src, malformed, store, idSeq, statusRows, now, runsLeft, faultsLeft, tablesToSync, tIdx, offset, allRecords, requests, rIdx,
                 tres, result, outcome, edited, prev, tableFaults, fetchFailed,
                 upsertCalls>>
  /\ UNCHANGED otherThanSync

\* The per-table sync returns and its entry is pushed onto result.tables.
TableReturn ==
  /\ pc = "records"
  /\ rIdx > Len(allRecords)
  /\ result' = PushTable(result, CurTable, tres)
  /\ tIdx' = tIdx + 1
  /\ pc' = "loop"
  /\ UNCHANGED <<opts, flaky, src, malformed, store, idSeq, statusRows, now, runsLeft, faultsLeft, tablesToSync, offset, allRecords, requests, rIdx,
                 embedding, tres, outcome, edited, prev, tableFaults, fetchFailed,
                 upsertCalls, touched,
                 statusFailed>>
  /\ UNCHANGED otherThanSync

\* The record a failed record hands over to, were the loop to stop at the
\* first failure.
AbortAfterError(i, n) == n + 1

\* The record a failed record hands over to, were the catch to skip the
\* record after the failed one.
SkipOneAfterError(i, n) == i + 2

\* The inner catch pushes the error and the for loop goes on with the next
\* record.
NextAfterError(i, n) == i + 1

\* recordData of the implementation in use.
RecordData ==
  IF opts.impl = "lib" THEN LibRecordData(CurTable, CurRecord, embedding)
  ELSE RouteRecordData(CurTable, CurRecord)

\* syncTable with embedRecords: generateEmbedding answered.
EmbedOk ==
  /\ pc = "embed"
  /\ embedding' = generateEmbedding(recordToText(CurRecord, TableName(CurTable)), <<>>).embedding
  /\ pc' = "upsert"
  /\ UNCHANGED <<opts, flaky, src, malformed, store, idSeq, statusRows, now, runsLeft, faultsLeft, tablesToSync, tIdx, offset, allRecords, requests, rIdx,
                 tres, result, outcome, edited, prev, tableFaults, fetchFailed,
                 upsertCalls, touched,
                 statusFailed>>
  /\ UNCHANGED otherThanSync

\* syncTable with embedRecords: generateEmbedding threw; the record is not
\* upserted and its error is recorded.
EmbedErr ==
  /\ pc = "embed"
  /\ "embed" \in flaky /\ faultsLeft > 0
  /\ faultsLeft' = faultsLeft - 1
  /\ tres' = [tres EXCEPT !.errors = Append(@, Err("Failed to sync record", CurTable, CurRecord.id))]
  /\ rIdx' = NextAfterError(rIdx, Len(allRecords))
  /\ pc' = "records"
  /\ tableFaults' = [tableFaults EXCEPT ![CurTable] = @ + 1]
  /\ UNCHANGED <<opts, flaky, src, malformed, store, idSeq, statusRows, now, runsLeft,
                 tablesToSync, tIdx, offset, allRecords, requests, embedding, result,
                 outcome, edited, prev, fetchFailed, upsertCalls, touched,
                 statusFailed>>
  /\ UNCHANGED otherThanSync

\* The upsert of one record succeeded.
UpsertOk ==
  /\ pc = "upsert"
  /\ <<CurTable, CurRecord.id>> \notin malformed
  /\ store' = Upsert(store, RecordData, OnConflict, RowDefaults)
  /\ idSeq' = IF Len(store') > Len(store) /\ "id" \notin DOMAIN RecordData
              THEN idSeq + 1 ELSE idSeq
  /\ tres' = [tres EXCEPT !.synced = @ + 1]
  /\ rIdx' = rIdx + 1
  /\ pc' = "records"
  /\ upsertCalls' = [upsertCalls EXCEPT ![CurTable] = @ + 1]
  /\ UNCHANGED <<opts, flaky, src, malformed, statusRows, now, runsLeft, faultsLeft,
                 tablesToSync, tIdx, offset, allRecords, requests, embedding, result,
                 outcome, edited, prev, tableFaults, fetchFailed, touched,
                 statusFailed>>
  /\ UNCHANGED otherThanSync

\* A failed upsert that takes the key's existing row with it.
UpsertErrDropsRow ==
  /\ pc = "upsert"
  /\ \/ /\ <<CurTable, CurRecord.id>> \in malformed
        /\ faultsLeft' = faultsLeft
     \/ /\ <<CurTable, CurRecord.id>> \notin malformed
        /\ "upsert" \in flaky /\ faultsLeft > 0
        /\ faultsLeft' = faultsLeft - 1
  /\ store' = SelectSeq(store, LAMBDA row : ~SameKey(row, RecordData, OnConflict))
  /\ tres' = [tres EXCEPT !.errors = Append(@, Err("Failed to sync record", CurTable, CurRecord.id))]
  /\ rIdx' = NextAfterError(rIdx, Len(allRecords))
  /\ pc' = "records"
  /\ upsertCalls' = [upsertCalls EXCEPT ![CurTable] = @ + 1]
  /\ tableFaults' = [tableFaults EXCEPT ![CurTable] = @ + 1]
  /\ UNCHANGED <<opts, flaky, src, malformed, idSeq, statusRows, now, runsLeft,
                 tablesToSync, tIdx, offset, allRecords, requests, embedding, result,
                 outcome, edited, prev, fetchFailed, touched,
                 statusFailed>>
  /\ UNCHANGED otherThanSync

\* The upsert of one record returned an error: nothing is written.
UpsertErr ==
  /\ pc = "upsert"
  /\ \/ /\ <<CurTable, CurRecord.id>> \in malformed
        /\ faultsLeft' = faultsLeft
     \/ /\ <<CurTable, CurRecord.id>> \notin malformed
        /\ "upsert" \in flaky /\ faultsLeft > 0
        /\ faultsLeft' = faultsLeft - 1
  /\ tres' = [tres EXCEPT !.errors = Append(@, Err("Failed to sync record", CurTable, CurRecord.id))]
  /\ rIdx' = NextAfterError(rIdx, Len(allRecords))
  /\ pc' = "records"
  /\ upsertCalls' = [upsertCalls EXCEPT ![CurTable] = @ + 1]
  /\ tableFaults' = [tableFaults EXCEPT ![CurTable] = @ + 1]
  /\ UNCHANGED <<opts, flaky, src, malformed, store, idSeq, statusRows, now, runsLeft,
                 tablesToSync, tIdx, offset, allRecords, requests, embedding, result,
                 outcome, edited, prev, fetchFailed, touched,
                 statusFailed>>
  /\ UNCHANGED otherThanSync

\* The status upsert wrote the run's row; the result is returned.
StatusOk ==
  /\ pc = "status"
  /\ statusRows' = UpsertStatus(statusRows, StatusRow(result))
  /\ pc' = "done"
  /\ outcome' = "returned"
  /\ UNCHANGED <<opts, flaky, src, malformed, store, idSeq, now, runsLeft, faultsLeft,
                 tablesToSync, tIdx, offset, allRecords, requests, rIdx, embedding,
                 tres, result, edited, prev, tableFaults, fetchFailed, upsertCalls,
                 touched,
                 statusFailed>>
  /\ UNCHANGED otherThanSync

\* The status upsert returned an error, which is not looked at.
StatusErr ==
  /\ pc = "status"
  /\ "status" \in flaky /\ faultsLeft > 0
  /\ faultsLeft' = faultsLeft - 1
  /\ pc' = "done"
  /\ outcome' = "returned"
  /\ UNCHANGED <<opts, flaky, src, malformed, store, idSeq, statusRows, now, runsLeft,
                 tablesToSync, tIdx, offset, allRecords, requests, rIdx, embedding,
                 tres, result, edited, prev, tableFaults, fetchFailed, upsertCalls,
                 touched>>
  /\ statusFailed' = TRUE
  /\ UNCHANGED otherThanSync

\* Somebody edits one record of the external base between two runs.
ExternalEdit ==
  /\ pc = "done"
  /\ ~edited
  /\ \E t \in TableSet : \E r \in 1..Len(src[t]) :
        src' = [src EXCEPT ![t][r] = @ + 1]
  /\ edited' = TRUE
  /\ UNCHANGED <<opts, flaky, malformed, store, idSeq, statusRows, now, pc, runsLeft, faultsLeft,
                 tablesToSync, tIdx, offset, allRecords, requests, rIdx, embedding,
                 tres, result, outcome, prev, tableFaults, fetchFailed, upsertCalls,
                 touched,
                 statusFailed>>
  /\ UNCHANGED otherThanSync

NextRun ==
  \/ StartRun
  \/ SchemaOk
  \/ SchemaErr
  \/ ForEachTable
  \/ TablesDone
  \/ FetchPageOk
  \/ FetchPageErr
  \/ GetAllRecordsOk
  \/ GetAllRecordsErr
  \/ ForEachRecord
  \/ TableReturn
  \/ EmbedOk
  \/ EmbedErr
  \/ UpsertOk
  \/ UpsertErr
  \/ StatusOk
  \/ StatusErr

NextSync == NextRun \/ ExternalEdit

SpecSync == InitSync /\ [][NextSync]_vars

\* ------------------------------------------------- the paginated scenarios
\* Table A is large enough to need several pages, table B follows it.
InitPaging ==
  InitRun({Base([t \in TableSet |-> IF t = "tblA" THEN n ELSE 1]) : n \in PagingSizes},
          Calls({<<>>}),
          {{}, {<<"tblA", PageSize>>}, {<<"tblA", PageSize + 1>>}},
          {"schema", "fetch", "status"}, MaxPagingFaults, 1)
  /\ TriggerIdle
  /\ RetrievalIdle
  /\ ChatIdle
  /\ EnvConfigured
  /\ PushIdle
  /\ ConcIdle
  /\ MaintIdle

NextPaging ==
  \/ StartRun
  \/ SchemaOk
  \/ SchemaErr
  \/ ForEachTable
  \/ TablesDone
  \/ FetchPageOk
  \/ FetchPageErr
  \/ GetAllRecordsOk
  \/ GetAllRecordsErr
  \/ ForEachRecord
  \/ TableReturn
  \/ EmbedOk
  \/ UpsertOk
  \/ UpsertErr
  \/ StatusOk
  \/ StatusErr

SpecPaging == InitPaging /\ [][NextPaging]_vars

\* =========================================================== N8nClient
\* The events a caller hands to trigger.
Events ==
  [type : {"new_document", "toString"}, partner_id : {"p1"},
   data : {"d"}, timestamp : {0}]

\* The members every object literal inherits from Object.prototype. A lookup
\* of one of these names on the endpoints object finds the inherited member,
\* written here as the text the template literal of fullUrl makes of it.
Inherited(name) ==
  CASE name = "constructor" -> "function Object() { [native code] }"
    [] name = "__proto__" -> "[object Object]"
    [] name \in {"toString", "toLocaleString", "valueOf", "hasOwnProperty",
                 "isPrototypeOf", "propertyIsEnumerable", "__defineGetter__",
                 "__defineSetter__", "__lookupGetter__", "__lookupSetter__"} ->
         "function " \o name \o "() { [native code] }"
    [] OTHER -> ""

\* getEndpointForEvent: endpoints[eventType] || '/webhook/general'. The lookup
\* gives the mapped path, an inherited member (truthy) or undefined.
getEndpointForEvent(eventType) ==
  CASE eventType = "new_document" -> "/webhook/document"
    [] eventType = "chat_query" -> "/webhook/chat"
    [] eventType = "content_generated" -> "/webhook/content"
    [] eventType = "meeting_synced" -> "/webhook/meeting"
    [] eventType = "airtable_updated" -> "/webhook/airtable"
    [] Inherited(eventType) # "" -> Inherited(eventType)
    [] OTHER -> "/webhook/general"

\* The ways one HTTP attempt fails: a non-2xx status, a transport error, a
\* body that is no JSON, the timeout's abort.
FailureKinds == {"n8n returned 500", "fetch failed", "invalid json", "aborted"}

\* What response.json() gives for a 2xx answer: an object with or without an
\* executionId, or another JSON value; null is one.
Bodies == {[json |-> "object", executionId |-> <<"x1">>],
           [json |-> "object", executionId |-> <<>>],
           [json |-> "null", executionId |-> <<>>]}

\* Reading a property of the body throws for null alone.
HasProperties(body) == body.json # "null"

NullBodyError == "Cannot read properties of null (reading 'executionId')"

\* The client as constructed: options.retries || 3, options.timeout || 30000.
NewClient(url, retries, timeout) ==
  [baseUrl |-> url,
   maxRetries |-> IF retries = 0 THEN DefaultRetries ELSE retries,
   timeout |-> IF timeout = 0 THEN DefaultTimeout ELSE timeout]

InitTrigger ==
  /\ InitRun({Base([t \in TableSet |-> 0])}, {[impl |-> "lib", embedRecords |-> FALSE,
              tables |-> <<>>]}, {{}}, {}, 0, 0)
  /\ cfg \in {NewClient(u, r, 0) : u \in {"", "https://n8n"}, r \in 0..MaxRetriesOption}
  /\ tpc = "idle"
  /\ event = <<>>
  /\ attempt = 0
  /\ lastError = <<>>
  /\ response = <<>>
  /\ tResult = <<>>
  /\ inFlight = 0
  /\ trace = <<>>
  /\ webhook_logs = <<>>
  /\ triggersLeft = MaxTriggers
  /\ logsBefore = 0
  /\ elapsed = 0
  /\ RetrievalIdle
  /\ ChatIdle
  /\ EnvConfigured
  /\ PushIdle
  /\ ConcIdle
  /\ MaintIdle

Step(op, n, what, ms) == [op |-> op, attempt |-> n, what |-> what, ms |-> ms]

\* The loop guard, were it to allow one attempt more.
MayAttemptOneMore(n, maxRetries) == n <= maxRetries

\* while (attempt < this.maxRetries), and the guard of the backoff wait.
MayAttempt(n, maxRetries) == n < maxRetries

\* Math.pow(2, attempt) * 1000
BackoffMs(n) == (2 ^ n) * 1000

\* The row logWebhook inserts.
LogRow(url, e, resp, status) ==
  [direction |-> "outbound", endpoint |-> url, event_type |-> e.type,
   payload |-> e, response |-> resp, status |-> status, created_at |-> 0]

FullUrl(e) == <<cfg.baseUrl, getEndpointForEvent(e.type)>>

\* trigger(event) is called: without a base URL it returns at once; else the
\* first attempt's request is sent.
Trigger ==
  /\ tpc \in {"idle", "returned"}
  /\ triggersLeft > 0
  /\ triggersLeft' = triggersLeft - 1
  /\ logsBefore' = Len(webhook_logs)
  /\ elapsed' = 0
  /\ \E e \in Events :
       /\ event' = e
       /\ lastError' = <<>>
       /\ response' = <<>>
       /\ IF cfg.baseUrl = ""
          THEN /\ tResult' = [success |-> FALSE, executionId |-> <<>>,
                              error |-> <<"n8n webhook URL not configured">>]
               /\ tpc' = "returned"
               /\ attempt' = 0
               /\ trace' = <<>>
               /\ inFlight' = inFlight
          ELSE IF MayAttempt(0, cfg.maxRetries)
          THEN /\ tResult' = <<>>
               /\ attempt' = 1
               /\ tpc' = "request"
               /\ inFlight' = inFlight + 1
               /\ trace' = <<Step("post", 1, e.type, 0)>>
          ELSE /\ tResult' = <<>>
               /\ attempt' = 0
               /\ tpc' = "logError"
               /\ inFlight' = inFlight
               /\ trace' = <<Step("log", 0, "error", 0)>>
  /\ UNCHANGED <<cfg, webhook_logs>>
  /\ UNCHANGED otherThanTrigger

\* The step of time in which a pending call is watched.
TickMs == DefaultTimeout \div 2

\* No call is watched for longer than this.
MaxHangMs == 3 * DefaultTimeout

\* A timer that is never set.
TimerNeverFires(ms, timeout) == FALSE

\* setTimeout(() => controller.abort(), this.timeout): the timer has fired.
TimerFired(ms, timeout) == ms >= timeout

\* The HTTP call stays pending for another while; the timer is running.
Tick ==
  /\ tpc = "request"
  /\ ~TimerFired(elapsed, cfg.timeout)
  /\ elapsed < MaxHangMs
  /\ elapsed' = elapsed + TickMs
  /\ UNCHANGED <<cfg, tpc, event, attempt, lastError, response, tResult, inFlight, trace,
                 webhook_logs, triggersLeft, logsBefore>>
  /\ UNCHANGED otherThanTrigger

\* makeRequest returned the parsed body of a 2xx response: the success row is
\* handed to logWebhook.
HttpOk ==
  /\ tpc = "request"
  /\ ~TimerFired(elapsed, cfg.timeout)
  /\ elapsed' = 0
  /\ \E body \in Bodies : response' = body
  /\ inFlight' = inFlight - 1
  /\ tpc' = "logSuccess"
  /\ trace' = trace \o <<Step("ok", attempt, "", 0), Step("log", attempt, "success", 0)>>
  /\ UNCHANGED <<cfg, event, attempt, lastError, tResult, webhook_logs, triggersLeft, logsBefore>>
  /\ UNCHANGED otherThanTrigger

\* A failed attempt whose HTTP call is left open: a timeout that gives up
\* waiting without cancelling the call.
HttpFailWithoutAbort ==
  /\ tpc = "request"
  /\ elapsed' = 0
  /\ \E k \in FailureKinds :
       /\ (k = "aborted") = TimerFired(elapsed, cfg.timeout)
       /\ lastError' = <<k>>
       /\ IF MayAttempt(attempt, cfg.maxRetries)
          THEN /\ tpc' = "backoff"
               /\ trace' = trace \o <<Step("fail", attempt, k, 0),
                                       Step("wait", attempt, "", BackoffMs(attempt))>>
          ELSE /\ tpc' = "logError"
               /\ trace' = trace \o <<Step("fail", attempt, k, 0),
                                       Step("log", attempt, "error", 0)>>
  /\ inFlight' = inFlight
  /\ UNCHANGED <<cfg, event, attempt, response, tResult, webhook_logs, triggersLeft, logsBefore>>
  /\ UNCHANGED otherThanTrigger

\* makeRequest threw: the error is kept; a backoff wait starts when attempts
\* remain, else the error row is handed to logWebhook.
HttpFail ==
  /\ tpc = "request"
  /\ elapsed' = 0
  /\ \E k \in FailureKinds :
       /\ (k = "aborted") = TimerFired(elapsed, cfg.timeout)
       /\ lastError' = <<k>>
       /\ IF MayAttempt(attempt, cfg.maxRetries)
          THEN /\ tpc' = "backoff"
               /\ trace' = trace \o <<Step("fail", attempt, k, 0),
                                       Step("wait", attempt, "", BackoffMs(attempt))>>
          ELSE /\ tpc' = "logError"
               /\ trace' = trace \o <<Step("fail", attempt, k, 0),
                                       Step("log", attempt, "error", 0)>>
  /\ inFlight' = inFlight - 1
  /\ UNCHANGED <<cfg, event, attempt, response, tResult, webhook_logs, triggersLeft, logsBefore>>
  /\ UNCHANGED otherThanTrigger

\* The backoff delay elapsed: the next attempt's request is sent.
BackoffElapsed ==
  /\ tpc = "backoff"
  /\ elapsed' = 0
  /\ attempt' = attempt + 1
  /\ tpc' = "request"
  /\ inFlight' = inFlight + 1
  /\ trace' = trace \o <<Step("elapsed", attempt, "", 0),
                          Step("post", attempt + 1, event.type, 0)>>
  /\ UNCHANGED <<cfg, event, lastError, response, tResult, webhook_logs, triggersLeft, logsBefore>>
  /\ UNCHANGED otherThanTrigger

\* What trigger returns once logWebhook is back.
TriggerReturn ==
  IF tpc = "logSuccess"
  THEN [success |-> TRUE, executionId |-> response.executionId, error |-> <<>>]
  ELSE [success |-> FALSE, executionId |-> <<>>,
        error |-> IF lastError # <<>> THEN lastError ELSE <<"Unknown error">>]

\* logWebhook is back. After the success row, the return statement reads
\* response.executionId: for a null body that throws inside the try, and the
\* catch takes it for a failed attempt. Otherwise trigger returns.
AfterLog(step) ==
  IF tpc = "logSuccess" /\ ~HasProperties(response)
  THEN /\ lastError' = <<NullBodyError>>
       /\ tResult' = tResult
       /\ IF MayAttempt(attempt, cfg.maxRetries)
          THEN /\ tpc' = "backoff"
               /\ trace' = trace \o <<step, Step("wait", attempt, "", BackoffMs(attempt))>>
          ELSE /\ tpc' = "logError"
               /\ trace' = trace \o <<step, Step("log", attempt, "error", 0)>>
  ELSE /\ lastError' = lastError
       /\ tResult' = TriggerReturn
       /\ tpc' = "returned"
       /\ trace' = Append(trace, step)

\* logWebhook inserted its row.
LogOk ==
  /\ tpc \in {"logSuccess", "logError"}
  /\ webhook_logs' = Append(webhook_logs,
        IF tpc = "logSuccess"
        THEN LogRow(FullUrl(event), event, response, "success")
        ELSE LogRow(FullUrl(event), event, [error |-> lastError], "error"))
  /\ AfterLog(Step("logged", attempt, "", 0))
  /\ UNCHANGED <<cfg, event, attempt, response, inFlight, triggersLeft, logsBefore,
                 elapsed>>
  /\ UNCHANGED otherThanTrigger

\* A failing audit write, were logWebhook to let the error out: on the
\* success path trigger's catch takes it for a failed attempt, on the error
\* path trigger itself throws.
LogErrEscapes ==
  /\ tpc \in {"logSuccess", "logError"}
  /\ tResult' = [success |-> FALSE, executionId |-> <<>>, error |-> <<"thrown">>]
  /\ tpc' = "thrown"
  /\ trace' = Append(trace, Step("logfail", attempt, "", 0))
  /\ UNCHANGED <<cfg, event, attempt, lastError, response, inFlight, webhook_logs,
                 triggersLeft, logsBefore, elapsed>>
  /\ UNCHANGED otherThanTrigger

\* logWebhook failed (no client, or the insert did not succeed): the error
\* is caught and logged to the console, no row is written.
LogErr ==
  /\ tpc \in {"logSuccess", "logError"}
  /\ AfterLog(Step("logfail", attempt, "", 0))
  /\ UNCHANGED <<cfg, event, attempt, response, inFlight, webhook_logs,
                 triggersLeft, logsBefore, elapsed>>
  /\ UNCHANGED otherThanTrigger

NextTrigger ==
  \/ Trigger
  \/ Tick
  \/ HttpOk
  \/ HttpFail
  \/ BackoffElapsed
  \/ LogOk
  \/ LogErr

SpecTrigger == InitTrigger /\ [][NextTrigger]_vars

\* ------------------------------------------------------- calls that hang
\* One trigger call of a client with a base URL, with the default timeout or
\* a shorter one.
InitHang ==
  /\ InitRun({Base([t \in TableSet |-> 0])}, {[impl |-> "lib", embedRecords |-> FALSE,
              tables |-> <<>>]}, {{}}, {}, 0, 0)
  /\ cfg \in {NewClient("https://n8n", r, t) : r \in 0..MaxRetriesOption, t \in {0, TickMs}}
  /\ tpc = "idle"
  /\ event = <<>>
  /\ attempt = 0
  /\ lastError = <<>>
  /\ response = <<>>
  /\ tResult = <<>>
  /\ inFlight = 0
  /\ trace = <<>>
  /\ webhook_logs = <<>>
  /\ triggersLeft = 1
  /\ logsBefore = 0
  /\ elapsed = 0
  /\ RetrievalIdle
  /\ ChatIdle
  /\ EnvConfigured
  /\ PushIdle
  /\ ConcIdle
  /\ MaintIdle

\* The timer fired and controller.abort() made the pending fetch reject.
Abort == TimerFired(elapsed, cfg.timeout) /\ HttpFail

\* Time passes while a call is pending, and the timers of makeRequest and
\* delay fire. The server need not ever answer, and neither need the store:
\* logWebhook awaits its insert without a timer.
SpecHang ==
  /\ InitHang
  /\ [][NextTrigger]_vars
  /\ WF_vars(Tick)
  /\ WF_vars(Abort)
  /\ WF_vars(BackoffElapsed)

\* ====================================================== get_rag_context
\* Embeddings are integer vectors of one dimension with components >= 0;
\* <<>> is SQL NULL.
Null == <<>>

QueryVectors == {<<1, 0, 0, 0, 0>>, <<0, 1, 0, 0, 0>>}

Partners == {"p1", "p2"}

Thresholds == {60, ChatThreshold, 80}

Limits == {1, ChatTopK}

\* A chunk row joined with its parent: the parent's id, tenant, status and
\* update time, and the chunk's own embedding.
Chunk(kind, parent, id, partner, status, vector, updated) ==
  [kind |-> kind, parent |-> parent, id |-> id, partner_id |-> partner,
   status |-> status, embedding |-> vector, updated |-> updated]

\* The rows the stores may come to hold.
ChunkUniverse ==
  {Chunk("document", "d1", "d1c1", "p1", "ready", <<12, 5, 0, 0, 0>>, 2),
   Chunk("document", "d1", "d1c2", "p1", "ready", <<4, 3, 0, 0, 0>>, 2),
   Chunk("document", "d1", "d1c3", "p1", "ready", <<1, 1, 0, 0, 0>>, 2),
   Chunk("document", "d1", "d1c4", "p1", "ready", Null, 2),
   Chunk("document", "d2", "d2c1", "p1", "processing", <<4, 3, 0, 0, 0>>, 1),
   Chunk("document", "d3", "d3c1", "p2", "ready", <<4, 3, 0, 0, 0>>, 1),
   Chunk("meeting", "m1", "m1c1", "p1", "", <<4, 3, 0, 0, 0>>, 1),
   Chunk("meeting", "m1", "m1c2", "p1", "", <<3, 4, 0, 0, 0>>, 1),
   Chunk("meeting", "m2", "m2c1", "p2", "", <<4, 3, 0, 0, 0>>, 2),
   Chunk("airtable", "r1", "r1", "p1", "", <<4, 3, 0, 0, 0>>, 1),
   Chunk("airtable", "r2", "r2", "p1", "", <<1, 1, 0, 0, 0>>, 2),
   Chunk("airtable", "r3", "r3", "p1", "", Null, 1),
   Chunk("airtable", "r4", "r4", "p2", "", <<4, 3, 0, 0, 0>>, 1),
   \* cosines 0.92, 0.81 and 0.65 with the first query vector
   Chunk("document", "d4", "d4c1", "p1", "ready", <<92, 32, 16, 16, 0>>, 1),
   Chunk("airtable", "r5", "r5", "p1", "", <<81, 58, 7, 5, 1>>, 1),
   Chunk("meeting", "m3", "m3c1", "p1", "", <<65, 75, 10, 7, 1>>, 1)}

Dot(a, b) == SeqSum([i \in 1..Len(a) |-> a[i] * b[i]])

\* 1 - (embedding <=> query_embedding): the cosine of the two vectors, kept
\* exact as dot / sqrt(norms2).
Similarity(vector, q) ==
  [dot |-> Dot(vector, q), norms2 |-> Dot(vector, vector) * Dot(q, q)]

SimLess(a, b) == a.dot * a.dot * b.norms2 < b.dot * b.dot * a.norms2

\* A threshold test that lets the threshold itself through.
AtLeastThreshold(sim, threshold) ==
  sim.dot * sim.dot * 10000 >= threshold * threshold * sim.norms2

\* similarity > match_threshold, the threshold in hundredths.
AboveThreshold(sim, threshold) ==
  sim.dot * sim.dot * 10000 > threshold * threshold * sim.norms2

\* The comparison of a NULL embedding is NULL, and WHERE drops the row.
Matches(c, q, threshold) ==
  /\ c.embedding # Null
  /\ AboveThreshold(Similarity(c.embedding, q), threshold)

Row(c, q) ==
  [source_type |-> c.kind, source_id |-> c.parent, content |-> c.id,
   similarity |-> Similarity(c.embedding, q), last_updated |-> c.updated]

DocumentRows(stored, q, partner, threshold) ==
  {Row(c, q) : c \in {d \in stored : /\ d.kind = "document"
                                     /\ d.partner_id = partner
                                     /\ d.status = "ready"
                                     /\ Matches(d, q, threshold)}}

MeetingRows(stored, q, partner, threshold) ==
  {Row(c, q) : c \in {m \in stored : /\ m.kind = "meeting"
                                     /\ m.partner_id = partner
                                     /\ Matches(m, q, threshold)}}

\* The airtable SELECT without its tenant condition.
AirtableRowsAnyTenant(stored, q, partner, threshold) ==
  {Row(c, q) : c \in {r \in stored : /\ r.kind = "airtable"
                                     /\ r.embedding # Null
                                     /\ Matches(r, q, threshold)}}

AirtableRows(stored, q, partner, threshold) ==
  {Row(c, q) : c \in {r \in stored : /\ r.kind = "airtable"
                                     /\ r.partner_id = partner
                                     /\ r.embedding # Null
                                     /\ Matches(r, q, threshold)}}

\* ORDER BY similarity DESC: every order of the rows in which no row comes
\* before a row of greater similarity.
OrderBySimilarityDesc(rows) ==
  LET n == Cardinality(rows) IN
  {f \in [1..n -> rows] :
     /\ \A i, j \in 1..n : i # j => f[i] # f[j]
     /\ \A i \in 1..(n - 1) : ~SimLess(f[i].similarity, f[i + 1].similarity)}

Limit(rows, n) == SubSeq(rows, 1, Min(n, Len(rows)))

\* The results get_rag_context may return.
get_rag_context(stored, q, partner, threshold, max_results) ==
  {Limit(ordered, max_results) :
     ordered \in OrderBySimilarityDesc(DocumentRows(stored, q, partner, threshold)
                                       \cup MeetingRows(stored, q, partner, threshold)
                                       \cup AirtableRows(stored, q, partner, threshold))}

InitRetrieval ==
  /\ InitRun({Base([t \in TableSet |-> 0])}, {[impl |-> "lib", embedRecords |-> FALSE,
              tables |-> <<>>]}, {{}}, {}, 0, 0)
  /\ TriggerIdle
  /\ ChatIdle
  /\ EnvConfigured
  /\ PushIdle
  /\ ConcIdle
  /\ MaintIdle
  /\ chunks = {}
  /\ ragCall = <<>>
  /\ ragOut = <<>>

\* The rows stored one by one; the three rows of the chat example are not
\* among them.
StorableChunks == {c \in ChunkUniverse : c.parent \notin {"d4", "r5", "m3"}}

\* A chunk, meeting chunk or record is stored with its embedding.
StoreChunk ==
  /\ Cardinality(chunks) < MaxChunks
  /\ \E c \in StorableChunks \ chunks : chunks' = chunks \cup {c}
  /\ UNCHANGED <<ragCall, ragOut>>
  /\ UNCHANGED otherThanRetrieval

\* One retrieval for a tenant.
Retrieve ==
  /\ \E q \in QueryVectors, partner \in Partners, threshold \in Thresholds,
        max_results \in Limits :
       /\ ragCall' = <<[q |-> q, partner |-> partner, threshold |-> threshold,
                        max_results |-> max_results, broken |-> {}, raised |-> FALSE]>>
       /\ ragOut' \in get_rag_context(chunks, q, partner, threshold, max_results)
  /\ UNCHANGED chunks
  /\ UNCHANGED otherThanRetrieval

\* The three tables the function reads.
Corpora == {"document", "meeting", "airtable"}

\* One retrieval in which the SELECT over some corpus raises an error (a
\* missing column, an embedding of another dimension): the three SELECTs are
\* one statement, RETURN QUERY raises and no row is returned.
RetrieveCorpusErr ==
  /\ \E q \in QueryVectors, partner \in Partners, broken \in {{k} : k \in Corpora} :
       ragCall' = <<[q |-> q, partner |-> partner, threshold |-> ChatThreshold,
                     max_results |-> ChatTopK, broken |-> broken, raised |-> TRUE]>>
  /\ ragOut' = <<>>
  /\ UNCHANGED chunks
  /\ UNCHANGED otherThanRetrieval

NextRetrieval ==
  \/ StoreChunk
  \/ RetrieveCorpusErr
  \/ Retrieve

SpecRetrieval == InitRetrieval /\ [][NextRetrieval]_vars

\* ============================================================ POST /api/chat
SYSTEM_PROMPT == "SYSTEM_PROMPT"

\* The requests: one the handler turns away (no user, no messages, no
\* provider), or one it answers, with or without retrieval.
ChatRequests ==
  {r \in [reject : {"none", "unauthorized", "no_messages", "no_provider"},
          useRAG : BOOLEAN, query : {"", "Q1", "Q2"}, partnerId : Partners] :
     r.reject # "none" => (r.useRAG /\ r.query = "Q1" /\ r.partnerId = "p1")}

\* The stores a chat request may find.
ChatCorpora == {S \in SUBSET ChunkUniverse : Cardinality(S) <= MaxChunks}

\* The embedding of the query text.
QueryEmbedding(query) ==
  IF query = "Q1" THEN <<1, 0, 0, 0, 0>> ELSE <<0, 1, 0, 0, 0>>

\* content.length of a chunk's content.
Length(content) ==
  CASE content = "d1c1" -> 20000
    [] content \in {"d1c2", "m1c1"} -> 9000
    [] content \in {"d1c3", "r1", "r2"} -> 4000
    [] OTHER -> 400

\* Characters of content the context may hold: a token counts as 4 characters.
BudgetChars(maxTokens) == maxTokens * 4

\* A budget rule that holds the first candidate to the budget too.
FitsStrict(used, n, budget, first) == used + n <= budget

\* The next candidate is taken when it is the first one or still fits.
Fits(used, n, budget, first) == first \/ used + n <= budget

\* The candidates included in the context: in rank order, stopping before the
\* first one that does not fit.
RECURSIVE Included(_, _, _, _)
Included(candidates, i, used, budget) ==
  IF i > Len(candidates) THEN <<>>
  ELSE IF Fits(used, Length(candidates[i].content), budget, i = 1)
       THEN <<candidates[i]>> \o
            Included(candidates, i + 1, used + Length(candidates[i].content), budget)
       ELSE <<>>

\* formatChunksForContext: "[name]: content" for every chunk, in order.
formatChunksForContext(rows) ==
  [i \in 1..Len(rows) |-> [name |-> rows[i].source_id, content |-> rows[i].content]]

\* formatSourceCitations: one citation per chunk, in order.
formatSourceCitations(rows) ==
  [i \in 1..Len(rows) |->
     [id |-> rows[i].content, documentId |-> rows[i].source_id,
      documentName |-> rows[i].source_id, chunkIndex |-> i,
      excerpt |-> rows[i].content, similarity |-> rows[i].similarity]]

\* The citations of the answer, were they built from every ranked candidate.
CitedCandidates(included, candidates) == candidates

\* The chunk list the citations are built from: ragResult.chunks.
CitedChunks(included, candidates) == included

\* The SourceCitation the handler makes of a citation.
SourceCitation(citation) ==
  [id |-> citation.id, type |-> "document", source_name |-> citation.documentName,
   source_id |-> citation.documentId, chunk_index |-> citation.chunkIndex,
   excerpt |-> citation.excerpt, relevance_score |-> citation.similarity]

\* similarity >= hundredths / 100
SimAtLeast(sim, hundredths) ==
  sim.dot * sim.dot * 10000 >= hundredths * hundredths * sim.norms2

\* The level, were one citation at 0.85 or more enough for high.
buildConfidenceOneSuffices(citations) ==
  IF \E i \in 1..Len(citations) : SimAtLeast(citations[i].relevance_score, 85)
  THEN "high"
  ELSE IF \E i \in 1..Len(citations) : SimAtLeast(citations[i].relevance_score, 70)
       THEN "medium" ELSE "low"

\* buildConfidence: the level of an answer's citations.
buildConfidence(citations) ==
  LET n85 == Cardinality({i \in 1..Len(citations) :
                            SimAtLeast(citations[i].relevance_score, 85)})
      n70 == Cardinality({i \in 1..Len(citations) :
                            SimAtLeast(citations[i].relevance_score, 70)})
  IN IF n85 >= 2 THEN "high" ELSE IF n70 >= 1 THEN "medium" ELSE "low"

InitChat ==
  /\ InitRun({Base([t \in TableSet |-> 0])}, {[impl |-> "lib", embedRecords |-> FALSE,
              tables |-> <<>>]}, {{}}, {}, 0, 0)
  /\ TriggerIdle
  /\ EnvConfigured
  /\ PushIdle
  /\ ConcIdle
  /\ MaintIdle
  /\ chunks \in ChatCorpora
  /\ ragCall = <<>>
  /\ ragOut = <<>>
  /\ req \in ChatRequests
  /\ cpc = "start"
  /\ ragCandidates = <<>>
  /\ ragResult = <<>>
  /\ ragContext = <<>>
  /\ sourceCitations = <<>>
  /\ systemMessage = <<>>
  /\ answer = <<>>
  /\ ragFailed = FALSE

UsesRag == req.useRAG /\ req.query # ""

\* No user (401), no messages (400) or no provider (500): the handler answers
\* at once.
Reject ==
  /\ cpc = "start"
  /\ req.reject # "none"
  /\ answer' = <<[status |-> CASE req.reject = "unauthorized" -> 401
                               [] req.reject = "no_messages" -> 400
                               [] OTHER -> 500,
                  system |-> <<>>, sources |-> <<>>]>>
  /\ cpc' = "done"
  /\ UNCHANGED <<req, ragCandidates, ragResult, ragContext, sourceCitations,
                 systemMessage, ragFailed, chunks>>
  /\ UNCHANGED otherThanChat

\* useRAG is off or there is no query: no retrieval.
SkipRag ==
  /\ cpc = "start"
  /\ req.reject = "none"
  /\ ~UsesRag
  /\ cpc' = "system"
  /\ UNCHANGED <<req, ragCandidates, ragResult, ragContext, sourceCitations,
                 systemMessage, answer, ragFailed, chunks>>
  /\ UNCHANGED otherThanChat

\* retrieveRelevantChunks returned: the ranked candidates above the threshold,
\* cut to topK and to the budget; a non-empty list gives the context and the
\* citations.
RetrieveOk ==
  /\ cpc = "start"
  /\ req.reject = "none"
  /\ UsesRag
  /\ \E ranked \in get_rag_context(chunks, QueryEmbedding(req.query), req.partnerId,
                                   ChatThreshold, ChatTopK) :
       LET included == Included(ranked, 1, 0, BudgetChars(ChatMaxTokens)) IN
         /\ ragCandidates' = ranked
         /\ ragResult' = included
         /\ IF Len(included) > 0
            THEN /\ ragContext' = formatChunksForContext(included)
                 /\ sourceCitations' =
                      LET cs == formatSourceCitations(CitedChunks(included, ranked))
                      IN [i \in 1..Len(cs) |-> SourceCitation(cs[i])]
            ELSE UNCHANGED <<ragContext, sourceCitations>>
  /\ cpc' = "system"
  /\ UNCHANGED <<req, systemMessage, answer, ragFailed, chunks>>
  /\ UNCHANGED otherThanChat

\* A retrieval failure, were it to leave the try block: the outer catch
\* answers 500.
RetrieveErrEscapes ==
  /\ cpc = "start"
  /\ req.reject = "none"
  /\ UsesRag
  /\ ragFailed' = TRUE
  /\ answer' = <<[status |-> 500, system |-> <<>>, sources |-> <<>>]>>
  /\ cpc' = "done"
  /\ UNCHANGED <<req, ragCandidates, ragResult, ragContext, sourceCitations,
                 systemMessage, chunks>>
  /\ UNCHANGED otherThanChat

\* retrieveRelevantChunks threw (the query's embedding or the search failed):
\* the error is logged and the handler goes on without context.
RetrieveErr ==
  /\ cpc = "start"
  /\ req.reject = "none"
  /\ UsesRag
  /\ ragFailed' = TRUE
  /\ cpc' = "system"
  /\ UNCHANGED <<req, ragCandidates, ragResult, ragContext, sourceCitations,
                 systemMessage, answer, chunks>>
  /\ UNCHANGED otherThanChat

\* The system message: the prompt, and the context when there is one.
BuildSystemMessage ==
  /\ cpc = "system"
  /\ systemMessage' = IF ragContext # <<>> THEN <<SYSTEM_PROMPT, ragContext>>
                      ELSE <<SYSTEM_PROMPT>>
  /\ cpc' = "generate"
  /\ UNCHANGED <<req, ragCandidates, ragResult, ragContext, sourceCitations,
                 answer, ragFailed, chunks>>
  /\ UNCHANGED otherThanChat

\* getModel, the conversation insert, the insert of the user message or
\* streamText threw: the outer catch answers 500 with the error.
GenerateErr ==
  /\ cpc = "generate"
  /\ answer' = <<[status |-> 500, system |-> <<>>, sources |-> <<>>]>>
  /\ cpc' = "done"
  /\ UNCHANGED <<req, ragCandidates, ragResult, ragContext, sourceCitations,
                 systemMessage, ragFailed, chunks>>
  /\ UNCHANGED otherThanChat

\* The model is obtained, the conversation and the user message are stored,
\* streamText is started with the system message and the response is returned
\* with the citations in its headers. The stored messages are not tracked.
Generate ==
  /\ cpc = "generate"
  /\ answer' = <<[status |-> 200, system |-> systemMessage,
                  sources |-> sourceCitations]>>
  /\ cpc' = "done"
  /\ UNCHANGED <<req, ragCandidates, ragResult, ragContext, sourceCitations,
                 systemMessage, ragFailed, chunks>>
  /\ UNCHANGED otherThanChat

NextChat ==
  \/ Reject
  \/ SkipRag
  \/ RetrieveOk
  \/ RetrieveErr
  \/ BuildSystemMessage
  \/ Generate
  \/ GenerateErr

SpecChat == InitChat /\ [][NextChat]_vars

\* ========================================================= pushToAirtable
\* The arguments of a push: recordId is null (<<>>), empty or an id.
PushRequests ==
  [tableName : {"tblA", "tblB"}, recordId : {<<>>, <<"">>, <<"rec1">>}, fields : {"f1", "f2"}]

\* if (recordId): null and the empty string are falsy.
Truthy(recordId) == recordId # <<>> /\ recordId # <<"">>

\* The Airtable client can be constructed.
AirtableConfigured == {"AIRTABLE_API_KEY", "AIRTABLE_BASE_ID"} \subseteq env

InitPush ==
  /\ InitRun({Base([t \in TableSet |-> 0])}, {[impl |-> "lib", embedRecords |-> FALSE,
              tables |-> <<>>]}, {{}}, {}, 0, 0)
  /\ TriggerIdle
  /\ RetrievalIdle
  /\ ChatIdle
  /\ ConcIdle
  /\ MaintIdle
  /\ env \in {Settings, Settings \ {"AIRTABLE_API_KEY"}, Settings \ {"AIRTABLE_BASE_ID"}}
  /\ ppc = "idle"
  /\ pushReq = <<>>
  /\ pushCalls = <<>>
  /\ pushResult = <<>>
  /\ pushesLeft = MaxPushes

\* pushToAirtable is called.
PushStart ==
  /\ ppc \in {"idle", "returned"}
  /\ pushesLeft > 0
  /\ pushesLeft' = pushesLeft - 1
  /\ \E r \in PushRequests : pushReq' = <<r>>
  /\ pushCalls' = <<>>
  /\ pushResult' = <<>>
  /\ ppc' = "client"
  /\ UNCHANGED otherThanPush

\* getAirtableClient returned: the one call is made, an update for a record
\* id and a create without.
PushCall ==
  /\ ppc = "client"
  /\ AirtableConfigured
  /\ pushCalls' = Append(pushCalls,
        IF Truthy(pushReq[1].recordId)
        THEN [op |-> "updateRecord", table |-> pushReq[1].tableName,
              id |-> pushReq[1].recordId, fields |-> pushReq[1].fields]
        ELSE [op |-> "createRecord", table |-> pushReq[1].tableName,
              id |-> <<>>, fields |-> pushReq[1].fields])
  /\ ppc' = "call"
  /\ UNCHANGED <<pushReq, pushResult, pushesLeft>>
  /\ UNCHANGED otherThanPush

\* getAirtableClient threw: the catch returns the error.
PushClientErr ==
  /\ ppc = "client"
  /\ ~AirtableConfigured
  /\ pushResult' = <<[success |-> FALSE, record |-> <<>>,
                      error |-> <<"Airtable not configured">>]>>
  /\ ppc' = "returned"
  /\ UNCHANGED <<pushReq, pushCalls, pushesLeft>>
  /\ UNCHANGED otherThanPush

\* The call returned the record.
PushCallOk ==
  /\ ppc = "call"
  /\ pushResult' = <<[success |-> TRUE,
                      record |-> <<[id |-> IF pushCalls[Len(pushCalls)].op = "updateRecord"
                                           THEN pushReq[1].recordId ELSE <<"recNew">>,
                                    fields |-> pushReq[1].fields]>>,
                      error |-> <<>>]>>
  /\ ppc' = "returned"
  /\ UNCHANGED <<pushReq, pushCalls, pushesLeft>>
  /\ UNCHANGED otherThanPush

\* A failed call that is made once more.
PushCallErrRetries ==
  /\ ppc = "call"
  /\ Len(pushCalls) < 2
  /\ pushCalls' = Append(pushCalls, pushCalls[Len(pushCalls)])
  /\ UNCHANGED <<ppc, pushReq, pushResult, pushesLeft>>
  /\ UNCHANGED otherThanPush

\* The call threw: the catch returns the error, nothing is tried again.
PushCallErr ==
  /\ ppc = "call"
  /\ \E msg \in {"Airtable API error", "Unknown error"} :
       pushResult' = <<[success |-> FALSE, record |-> <<>>, error |-> <<msg>>]>>
  /\ ppc' = "returned"
  /\ UNCHANGED <<pushReq, pushCalls, pushesLeft>>
  /\ UNCHANGED otherThanPush

NextPush ==
  \/ PushStart
  \/ PushCall
  \/ PushClientErr
  \/ PushCallOk
  \/ PushCallErr

SpecPush == InitPush /\ [][NextPush]_vars

\* ======================================================== missing settings
\* One operation (a sync, a trigger or a push) in a process where at most one
\* of the settings is missing.
InitConfig ==
  /\ env \in {Settings} \cup {Settings \ {s} : s \in Settings}
  /\ RetrievalIdle
  /\ ChatIdle
  /\ ConcIdle
  /\ MaintIdle
  /\ \/ /\ InitRun({Base(f) : f \in {g \in [TableSet -> SmallSizes] : g["tblB"] <= 1}},
                   Calls({<<>>}), {{}}, AllCalls, MaxFaults, 1)
        /\ TriggerIdle
        /\ PushIdle
     \/ /\ InitRun({Base([t \in TableSet |-> 0])}, {[impl |-> "lib", embedRecords |-> FALSE,
                    tables |-> <<>>]}, {{}}, {}, 0, 0)
        /\ cfg \in {NewClient(u, r, 0) : u \in {"", "https://n8n"}, r \in 0..2}
        /\ tpc = "idle"
        /\ event = <<>>
        /\ attempt = 0
        /\ lastError = <<>>
        /\ response = <<>>
        /\ tResult = <<>>
        /\ inFlight = 0
        /\ trace = <<>>
        /\ webhook_logs = <<>>
        /\ triggersLeft = 1
        /\ logsBefore = 0
        /\ elapsed = 0
        /\ PushIdle
     \/ /\ InitRun({Base([t \in TableSet |-> 0])}, {[impl |-> "lib", embedRecords |-> FALSE,
                    tables |-> <<>>]}, {{}}, {}, 0, 0)
        /\ TriggerIdle
        /\ ppc = "idle"
        /\ pushReq = <<>>
        /\ pushCalls = <<>>
        /\ pushResult = <<>>
        /\ pushesLeft = 1

NextConfig ==
  \/ ConfigErr
  \/ NextRun
  \/ NextTrigger
  \/ NextPush

SpecConfig == InitConfig /\ [][NextConfig]_vars

\* ================================================= two runs over one table
\* Two sync runs work on table tblA at the same time. Each fetches the
\* table's records and upserts them one by one; every upsert is one atomic
\* step of the store, and the runs' steps interleave freely. The external
\* table may be edited between the two fetches.
Syncers == {1, 2}

\* Records of the table the two runs share.
MaxSharedRecords == 1

SharedTable == "tblA"

\* The rest of the sync state, which the two runs leave alone.
syncRest == <<opts, malformed, flaky, statusRows, pc, runsLeft, tablesToSync,
              tIdx, offset, allRecords, requests, rIdx, embedding, tres, result,
              outcome, edited, prev, tableFaults, fetchFailed, upsertCalls, touched,
                 statusFailed>>

otherThanConc == <<syncRest, trigVars, ragVars, chatVars, env, pushVars, maintVars>>

InitConc ==
  /\ InitRun({Base([t \in TableSet |-> IF t = SharedTable THEN n ELSE 0]) : n \in 1..MaxSharedRecords},
             {[impl |-> "lib", embedRecords |-> FALSE, tables |-> <<>>]}, {{}},
             {"embed", "upsert"}, MaxFaults, 0)
  /\ TriggerIdle
  /\ RetrievalIdle
  /\ ChatIdle
  /\ EnvConfigured
  /\ PushIdle
  /\ MaintIdle
  /\ \E o \in [Syncers -> Calls({<<>>})] :
       syncers = [p \in Syncers |->
                    [impl |-> o[p].impl, embedRecords |-> o[p].embedRecords,
                     at |-> "idle", records |-> <<>>, idx |-> 0, payload |-> <<>>,
                     written |-> 0]]
  /\ lastWrite = [r \in 1..Len(src[SharedTable]) |-> <<>>]

\* recordData of run p for the record it is at.
SyncerRecordData(p) ==
  LET record == syncers[p].records[syncers[p].idx]
  IN IF syncers[p].impl = "lib"
     THEN LibRecordData(SharedTable, record,
            IF syncers[p].embedRecords
            THEN generateEmbedding(recordToText(record, TableName(SharedTable)), <<>>).embedding
            ELSE <<>>)
     ELSE RouteRecordData(SharedTable, record)

\* Run p fetched the table's records.
ConcFetch(p) ==
  /\ syncers[p].at = "idle"
  /\ syncers' = [syncers EXCEPT ![p].at = "records",
                                ![p].records = [r \in 1..Len(src[SharedTable]) |->
                                                  SourceRecord(SharedTable, r)],
                                ![p].idx = 1]
  /\ UNCHANGED <<src, store, idSeq, now, lastWrite, faultsLeft>>
  /\ UNCHANGED otherThanConc

\* Run p builds the recordData of its next record (with embedRecords, once
\* generateEmbedding has answered): the clock is read now, and the upsert is
\* sent.
ConcBuild(p) ==
  /\ syncers[p].at = "records"
  /\ syncers[p].idx <= Len(syncers[p].records)
  /\ now' = now + 1
  /\ syncers' = [syncers EXCEPT ![p].at = "upsert",
                                ![p].payload = <<SyncerRecordData(p)>>]
  /\ UNCHANGED <<src, store, idSeq, lastWrite, faultsLeft>>
  /\ UNCHANGED otherThanConc

\* The store applied the upsert run p had sent.
ConcUpsertOk(p) ==
  /\ syncers[p].at = "upsert"
  /\ store' = Upsert(store, syncers[p].payload[1], OnConflict, RowDefaults)
  /\ idSeq' = IF Len(store') > Len(store) /\ "id" \notin DOMAIN syncers[p].payload[1]
              THEN idSeq + 1 ELSE idSeq
  /\ lastWrite' = [lastWrite EXCEPT ![syncers[p].records[syncers[p].idx].id] =
                     <<[by |-> p, payload |-> syncers[p].payload[1]]>>]
  /\ syncers' = [syncers EXCEPT ![p].at = "records", ![p].payload = <<>>,
                                ![p].idx = @ + 1, ![p].written = @ + 1]
  /\ UNCHANGED <<src, now, faultsLeft>>
  /\ UNCHANGED otherThanConc

\* The embedding or the upsert of run p's next record failed: nothing is
\* written and the run goes on.
ConcRecordErr(p) ==
  /\ \/ syncers[p].at = "upsert"
     \/ /\ syncers[p].at = "records"
        /\ syncers[p].idx <= Len(syncers[p].records)
        /\ syncers[p].embedRecords
  /\ faultsLeft > 0
  /\ faultsLeft' = faultsLeft - 1
  /\ syncers' = [syncers EXCEPT ![p].at = "records", ![p].payload = <<>>,
                                ![p].idx = @ + 1]
  /\ UNCHANGED <<src, store, idSeq, now, lastWrite>>
  /\ UNCHANGED otherThanConc

\* Run p has gone through its records.
ConcFinish(p) ==
  /\ syncers[p].at = "records"
  /\ syncers[p].idx > Len(syncers[p].records)
  /\ syncers' = [syncers EXCEPT ![p].at = "done"]
  /\ UNCHANGED <<src, store, idSeq, now, lastWrite, faultsLeft>>
  /\ UNCHANGED otherThanConc

\* A record of the table is edited in Airtable.
ConcEdit ==
  /\ SeqSum(src[SharedTable]) < MaxEdits
  /\ \E r \in 1..Len(src[SharedTable]) :
       src' = [src EXCEPT ![SharedTable][r] = @ + 1]
  /\ UNCHANGED <<store, idSeq, now, syncers, lastWrite, faultsLeft>>
  /\ UNCHANGED otherThanConc

NextConc ==
  \/ \E p \in Syncers : ConcFetch(p)
  \/ \E p \in Syncers : ConcBuild(p)
  \/ \E p \in Syncers : ConcUpsertOk(p)
  \/ \E p \in Syncers : ConcRecordErr(p)
  \/ \E p \in Syncers : ConcFinish(p)
  \/ ConcEdit

SpecConc == InitConc /\ [][NextConc]_vars

\* ================================================================ claims
\* Rows without the synced_at column.
StripSyncedAt(rows) ==
  [i \in 1..Len(rows) |-> [c \in RowCols \ {"synced_at"} |-> rows[i][c]]]

\* No two rows of airtable_records share (external_id, base_id, table_id).
KeyUnique ==
  \A i, j \in 1..Len(store) : SameKey(store[i], store[j], OnConflict) => i = j

\* A run that got past schema discovery has just returned its result, and so
\* had the run before it, with no edit of the external base in between.
RerunDone ==
  /\ pc = "done" /\ outcome = "returned" /\ tIdx > 0
  /\ prev.done /\ prev.returned /\ ~prev.edited

\* C1 as stated: after the second of two successive runs on an unchanged
\* external table the store holds the rows the first run left (synced_at
\* aside), and no composite key ever has two rows.
C1_RerunSameRows ==
  /\ KeyUnique
  /\ RerunDone => StripSyncedAt(store) = StripSyncedAt(prev.store)

\* A run has just ended, and so had the run before it, with no edit of the
\* external base in between.
Rerun == pc = "done" /\ prev.done /\ ~prev.edited

\* The rows the second run appended to those the first run left.
AddedRows == (Len(prev.store) + 1)..Len(store)

\* The first run did not sync the record of the row: it failed at schema
\* discovery, or it reported an error of the record itself or the fetch error
\* of its table (record 0).
FailedBefore(row) ==
  \/ ~prev.returned
  \/ \E e \in 1..Len(prev.errors) :
       /\ prev.errors[e].table = TableName(row.table_id)
       /\ prev.errors[e].rec \in {0, row.external_id}

\* A row without the synced_at column.
StripRow(row) == [c \in RowCols \ {"synced_at"} |-> row[c]]

\* C1, amended: after the second of two successive runs on an unchanged
\* external table, every row the first run left is still in its place with
\* its id and composite key; a row has other columns than before (synced_at
\* aside), or was added, only if the first run had not synced its record:
\* the run failed at schema discovery or reported an error on the record. So
\* after a first run without error the store holds the same rows. No
\* composite key ever has two rows.
C1_RerunChangesOnlyFailed ==
  /\ KeyUnique
  /\ Rerun =>
       /\ Len(store) >= Len(prev.store)
       /\ \A i \in 1..Len(prev.store) :
            /\ store[i].id = prev.store[i].id
            /\ SameKey(store[i], prev.store[i], OnConflict)
            /\ StripRow(store[i]) # StripRow(prev.store[i]) => FailedBefore(store[i])
       /\ \A i \in AddedRows : FailedBefore(store[i])

\* C1 witness: the first run failed on one record and left two rows; the
\* second run, without error, re-upserted both, left their columns as they
\* were, and added the row of the record that had failed.
C1_Witness ==
  /\ RerunDone
  /\ Len(prev.errors) = 1
  /\ prev.errors[1].rec # 0
  /\ result.errors = <<>>
  /\ Len(prev.store) = 2
  /\ Len(store) = 3
  /\ store[3].external_id = prev.errors[1].rec
  /\ \A i \in 1..Len(prev.store) :
       /\ store[i].synced_at > prev.store[i].synced_at
       /\ StripRow(store[i]) = StripRow(prev.store[i])

\* The ids of the records fetched for the current table.
FetchedIds == [i \in 1..Len(allRecords) |-> allRecords[i].id]

\* The per-table sync is about to return.
TableSyncEnds == pc = "records" /\ rIdx > Len(allRecords)

\* C2: when exactly one of the N fetched records of a table failed, the
\* table's sync ends with synced = N-1 and one error, every record was
\* processed, and every later table of the run got its entry, with all its
\* records synced when nothing failed there.
C2_OneFailureIsolated ==
  /\ (TableSyncEnds /\ tableFaults[CurTable] = 1) =>
        /\ tres.synced = Len(allRecords) - 1
        /\ Len(tres.errors) = 1
        /\ touched = FetchedIds
  /\ (pc = "done" /\ outcome = "returned" /\ tIdx > 0) =>
        \A i \in 1..Len(tablesToSync) :
           (tableFaults[tablesToSync[i]] = 1 /\ tablesToSync[i] \notin fetchFailed) =>
              /\ result.tables[i].synced = Len(src[tablesToSync[i]]) - 1
              /\ \A j \in (i+1)..Len(tablesToSync) :
                    /\ j <= Len(result.tables)
                    /\ tableFaults[tablesToSync[j]] = 0 =>
                          result.tables[j].synced = Len(src[tablesToSync[j]])

\* C2 witness: the first of two records of table A failed, the second was
\* synced, and table B was synced after it.
C2_Witness ==
  /\ pc = "done"
  /\ outcome = "returned"
  /\ tablesToSync = TableIds
  /\ Len(src["tblA"]) = 2
  /\ tableFaults["tblA"] = 1
  /\ "tblA" \notin fetchFailed
  /\ result.tables[1].synced = 1
  /\ result.tables[1].error[1].rec = 1
  /\ Len(src["tblB"]) = 1
  /\ result.tables[2].synced = 1

\* A finished run that got past schema discovery.
RunReturned == pc = "done" /\ outcome = "returned" /\ tIdx > 0

\* C3 as stated: success is true exactly when some table synced at least
\* one record.
C3_SuccessIffSomeRecordSynced ==
  RunReturned =>
    (result.success <=> \E i \in 1..Len(result.tables) : result.tables[i].synced >= 1)

\* C3, amended: success is true exactly when some selected table was synced
\* without any failure (of its fetch or of one of its records), whether or
\* not it holds any record.
C3_SuccessIffSomeTableClean ==
  RunReturned =>
    (result.success <=>
       \E i \in 1..Len(tablesToSync) : tableFaults[tablesToSync[i]] = 0)

\* C3 witness: a run whose only clean table is empty reports success, and
\* one where a table synced a record but met a failure does not.
C3_Witness ==
  /\ RunReturned
  /\ tablesToSync = <<"tblB">>
  /\ tableFaults["tblB"] = 0
  /\ Len(src["tblB"]) = 0
  /\ result.success
  /\ result.totalRecords = 0

\* The offsets passed in the page requests for table t, in order.
ReqOffsets(t) ==
  LET qs == SelectSeq(requests, LAMBDA q : q.table = t)
  IN [i \in 1..Len(qs) |-> qs[i].offset]

\* Every record of table t, as the source holds them.
AllSourceRecords(t) == [r \in 1..Len(src[t]) |-> SourceRecord(t, r)]

\* The route is past the fetch of the current table and works on its records.
RouteFetched == opts.impl = "route" /\ pc \in {"records", "embed", "upsert"}

\* C8: the page requests of a table follow one another, each passing the
\* token of the page before; the fetch goes on exactly while the last page
\* carried a token, so a source serving P pages gets exactly P requests and
\* never more (the fetch ends); 120 records at page size 100 take 2
\* requests and, when nothing fails, synced = 120.
C8_PaginationDrainsAllPages ==
  /\ \A t \in TableSet :
        LET offs == ReqOffsets(t)
        IN /\ Len(offs) <= PagesOf(Len(src[t]))
           /\ \A i \in 1..Len(offs) :
                 offs[i] = IF i = 1 THEN <<>> ELSE SourcePage(t, offs[i-1]).offset
           /\ \A i \in 2..Len(offs) : offs[i] # <<>>
  /\ (opts.impl = "route" /\ pc = "fetch" /\ ReqOffsets(CurTable) # <<>>) =>
        SourcePage(CurTable, ReqOffsets(CurTable)[Len(ReqOffsets(CurTable))]).offset # <<>>
  /\ RouteFetched =>
        LET offs == ReqOffsets(CurTable)
        IN /\ Len(offs) = PagesOf(Len(src[CurTable]))
           /\ SourcePage(CurTable, offs[Len(offs)]).offset = <<>>
           /\ allRecords = AllSourceRecords(CurTable)
  /\ (RouteFetched /\ TableSyncEnds /\ Len(src[CurTable]) = 120
        /\ tableFaults[CurTable] = 0) =>
        /\ Len(ReqOffsets(CurTable)) = 2
        /\ tres.synced = 120

\* C8 witness: the route fetched a table of 120 records in two requests and
\* synced all of them.
C8_Witness ==
  /\ RouteFetched
  /\ TableSyncEnds
  /\ Len(src[CurTable]) = 120
  /\ ReqOffsets(CurTable) = <<<<>>, <<PageSize>>>>
  /\ tres.synced = 120
  /\ Len(store) = 120

\* The tables of the run that hold a malformed record.
HasMalformed(t) == \E m \in malformed : m[1] = t

\* C9: a table's records are upserted only once all its pages are fetched;
\* a table whose fetch failed gets no upsert in the run and is reported with
\* synced = 0 and status error; every table of the run still gets its entry,
\* and a table that met no failure has all its records upserted.
C9_FetchDrainedBeforeUpsert ==
  /\ pc \in {"embed", "upsert"} => allRecords = AllSourceRecords(CurTable)
  /\ \A t \in TableSet :
        /\ t \in fetchFailed => upsertCalls[t] = 0
        /\ upsertCalls[t] > 0 =>
              (opts.impl = "route" => Len(ReqOffsets(t)) = PagesOf(Len(src[t])))
  /\ RunReturned =>
        /\ Len(result.tables) = Len(tablesToSync)
        /\ \A i \in 1..Len(tablesToSync) :
              LET t == tablesToSync[i]
              IN /\ t \in fetchFailed =>
                      /\ result.tables[i].synced = 0
                      /\ result.tables[i].status = "error"
                 /\ (tableFaults[t] = 0 /\ ~HasMalformed(t)) =>
                      /\ upsertCalls[t] = Len(src[t])
                      /\ result.tables[i].synced = Len(src[t])

\* C9 witness: the second page request of table A failed after the first
\* page was fetched; no record of A was upserted and table B was synced.
C9_Witness ==
  /\ RunReturned
  /\ opts.impl = "route"
  /\ "tblA" \in fetchFailed
  /\ Len(ReqOffsets("tblA")) = 2
  /\ upsertCalls["tblA"] = 0
  /\ result.tables[1].synced = 0
  /\ result.tables[1].status = "error"
  /\ result.tables[2].synced = 1
  /\ Len(store) = 1

\* ------------------------------------------------------------ dispatcher
Steps(op) == {i \in 1..Len(trace) : trace[i].op = op}

Delivering == tpc \in {"request", "backoff"}

\* The steps at which trigger's catch ran: a failed request, or the return
\* after the success row that threw (a wait or the error row follows it).
Caught ==
  Steps("fail") \cup
  {i \in Steps("logged") \cup Steps("logfail") :
     i < Len(trace) /\ trace[i + 1].op \in {"wait", "log"}}

\* The call returned after the catch ran for its last allowed attempt.
Exhausted ==
  /\ tpc = "returned"
  /\ attempt > 0
  /\ \E i \in Steps("log") : trace[i].what = "error"

\* C4: in one trigger call the number of HTTP attempts never exceeds
\* maxRetries; a failed attempt i that is not the last allowed one is followed
\* by a wait of exactly 2^i seconds, and no wait follows the final attempt.
C4_BoundedAttemptsExactBackoff ==
  /\ attempt <= cfg.maxRetries
  /\ Cardinality(Steps("post")) = attempt
  /\ \A i \in Steps("fail") : i < Len(trace)
  /\ \A i \in Caught :
       /\ IF trace[i].attempt < cfg.maxRetries
          THEN /\ trace[i + 1].op = "wait"
               /\ trace[i + 1].attempt = trace[i].attempt
               /\ trace[i + 1].ms = (2 ^ trace[i].attempt) * 1000
          ELSE \A j \in (i + 1)..Len(trace) : trace[j].op \notin {"wait", "post"}
  /\ \A i \in Steps("wait") : i > 1 /\ (i - 1) \in Caught

\* All attempts of a client with the default retry count failed: waits of two
\* and four seconds, none after the third attempt.
C4_Witness ==
  /\ Exhausted
  /\ cfg.maxRetries = DefaultRetries
  /\ attempt = DefaultRetries
  /\ {trace[i].ms : i \in Steps("wait")} = {2000, 4000}

\* C5: a trigger call that reaches a terminal delivery outcome hands exactly
\* one row to the audit log, with direction 'outbound', the event type and the
\* whole event as payload, however many attempts were made; attempts that
\* failed on the way write nothing.
C5_OneAuditInsertPerOutcome ==
  /\ Delivering =>
       /\ Steps("log") = {}
       /\ Len(webhook_logs) = logsBefore
  /\ Cardinality(Steps("log")) <= 1
  /\ (tpc = "returned" /\ attempt > 0) =>
       /\ Cardinality(Steps("log")) = 1
       /\ Len(webhook_logs) = logsBefore + Cardinality(Steps("logged"))
       /\ Cardinality(Steps("logged")) + Cardinality(Steps("logfail")) = 1
       /\ Steps("logged") # {} =>
            LET row == webhook_logs[Len(webhook_logs)] IN
              /\ row.direction = "outbound"
              /\ row.event_type = event.type
              /\ row.payload = event
              /\ row.status = (IF tResult.success THEN "success" ELSE "error")
  /\ \A i \in 1..Len(webhook_logs) : webhook_logs[i].direction = "outbound"

LastFailure ==
  LET last == CHOOSE i \in Caught : \A j \in Caught : j <= i
  IN IF trace[last].op = "fail" THEN trace[last].what ELSE NullBodyError

\* C6: trigger never throws; when every attempt failed it returns success
\* false with the last attempt's error message, and a failed audit write
\* changes nothing in what is returned.
C6_NeverThrowsLastErrorReturned ==
  /\ tpc # "thrown"
  /\ Exhausted =>
       /\ tResult.success = FALSE
       /\ tResult.error = <<LastFailure>>
       /\ (Len(trace) - 2) \in Caught
       /\ trace[Len(trace) - 2].attempt = cfg.maxRetries
  /\ (tpc = "returned" /\ attempt > 0 /\ ~Exhausted) =>
       /\ tResult.success = TRUE
       /\ tResult.executionId = response.executionId

\* Every attempt failed and then the audit write failed too.
C6_Witness ==
  /\ Exhausted
  /\ attempt >= 2
  /\ trace[Len(trace)].op = "logfail"
  /\ tResult.success = FALSE
  /\ tResult.error = lastError

\* C7: within one trigger call attempt N+1 is issued only after attempt N has
\* failed (by status, transport error or timeout) and its backoff wait has
\* elapsed; at most one HTTP call of the event is open at any time.
C7_AttemptsStrictlySequential ==
  /\ inFlight <= 1
  /\ inFlight = (IF tpc = "request" THEN 1 ELSE 0)
  /\ \A i \in Steps("post") :
       IF trace[i].attempt = 1
       THEN i = 1
       ELSE /\ i >= 4
            /\ trace[i - 1].op = "elapsed"
            /\ trace[i - 1].attempt = trace[i].attempt - 1
            /\ trace[i - 2].op = "wait"
            /\ (i - 3) \in Caught
            /\ trace[i - 3].attempt = trace[i].attempt - 1

\* The second attempt is open, after the first one timed out.
C7_Witness ==
  /\ tpc = "request"
  /\ attempt = 2
  /\ inFlight = 1
  /\ trace[2].what = "aborted"

\* ------------------------------------------------------------- retrieval
Returned == {ragOut[i].content : i \in 1..Len(ragOut)}

\* The chunk's similarity to the query is at most the threshold.
AtOrBelow(c, call) ==
  LET dot == Dot(c.embedding, call.q)
      n2 == Dot(c.embedding, c.embedding) * Dot(call.q, call.q)
  IN dot * dot * 10000 <= call.threshold * call.threshold * n2

\* C10: in every corpus, a chunk whose similarity to the query is less than
\* or equal to the threshold never appears in the retrieval output.
C10_AtOrBelowThresholdExcluded ==
  ragCall # <<>> =>
    \A c \in chunks :
      (c.embedding # Null /\ AtOrBelow(c, ragCall[1])) => c.id \notin Returned

\* A retrieval that returned a row while a chunk of the same tenant sat
\* exactly on the threshold (cosine 0.8 at threshold 0.8, |q| = 1).
C10_Witness ==
  /\ ragCall # <<>>
  /\ ragOut # <<>>
  /\ \E c \in chunks :
       /\ c.embedding # Null
       /\ c.partner_id = ragCall[1].partner
       /\ c.status # "processing"
       /\ Dot(c.embedding, ragCall[1].q) ^ 2 * 10000
            = ragCall[1].threshold ^ 2 * Dot(c.embedding, c.embedding)
       /\ c.id \notin Returned

\* ------------------------------------------------------------------ chat
Answered == cpc = "done" /\ answer # <<>> /\ answer[1].status = 200

SourceIds(rows) == {rows[i].source_id : i \in 1..Len(rows)}

\* C11: when the retrieval of a chat request fails, the request does not
\* fail by it: the step in which it fails gives no answer and leads on to the
\* system message, the handler goes on to generation with the system prompt
\* alone and with no citation, and the answer generation gives has both. (A
\* request whose generation fails is answered 500, after a failed retrieval
\* as after any other.)
C11_RetrievalFailureDegrades ==
  /\ [](ragFailed =>
         /\ ragContext = <<>>
         /\ sourceCitations = <<>>
         /\ cpc \in {"system", "generate", "done"}
         /\ cpc \in {"generate", "done"} => systemMessage = <<SYSTEM_PROMPT>>
         /\ cpc = "done" =>
              /\ answer[1].status \in {200, 500}
              /\ answer[1].status = 200 =>
                   /\ answer[1].system = <<SYSTEM_PROMPT>>
                   /\ answer[1].sources = <<>>)
  /\ [][(ragFailed' /\ ~ragFailed) => (cpc' = "system" /\ answer' = <<>>)]_vars
  /\ [][(ragFailed /\ cpc = "generate" /\ cpc' = "done") =>
          answer'[1].status \in {200, 500}]_vars

\* The retrieval failed over a store that held matching material, and the
\* answer was still given.
C11_Witness ==
  /\ ragFailed
  /\ Answered
  /\ \E c \in chunks :
       /\ c.partner_id = req.partnerId
       /\ c.kind = "meeting"
       /\ Matches(c, QueryEmbedding(req.query), ChatThreshold)

\* C12: the citations of a chat answer come from exactly the chunks in its
\* context: the same source ids, and no citation when no chunk is included.
C12_CitationsMatchContext ==
  Answered =>
    /\ SourceIds(answer[1].sources) = SourceIds(ragResult)
    /\ {ragContext[i].content : i \in 1..Len(ragContext)}
         = {ragResult[i].content : i \in 1..Len(ragResult)}
    /\ ragResult = <<>> => answer[1].sources = <<>>
    /\ ragResult # <<>> => answer[1].system = <<SYSTEM_PROMPT, ragContext>>

\* An answer whose context lost a candidate of another source to the budget.
C12_Witness ==
  /\ Answered
  /\ ragResult # <<>>
  /\ SourceIds(ragCandidates) # SourceIds(ragResult)
  /\ answer[1].sources # <<>>

ContentChars(rows) == SeqSum([i \in 1..Len(rows) |-> Length(rows[i].content)])

Retrieved == cpc \in {"system", "generate", "done"} /\ UsesRag /\ ~ragFailed
             /\ req.reject = "none"

\* C13: the content in the context stays within maxContextTokens x 4
\* characters, unless the top-ranked candidate alone is larger, and then it is
\* the only one returned; when a candidate passed the threshold the returned
\* list is not empty.
C13_BudgetRespected ==
  Retrieved =>
    /\ \/ ContentChars(ragResult) <= ChatMaxTokens * 4
       \/ /\ Len(ragResult) = 1
          /\ ragResult[1] = ragCandidates[1]
          /\ Length(ragResult[1].content) > ChatMaxTokens * 4
    /\ (\E c \in chunks :
          /\ c.partner_id = req.partnerId
          /\ c.kind = "document" => c.status = "ready"
          /\ c.embedding # Null
          /\ ~AtOrBelow(c, [q |-> QueryEmbedding(req.query), threshold |-> ChatThreshold]))
       => ragResult # <<>>

\* The top candidate alone is over the budget and is returned alone, a
\* second candidate being dropped.
C13_Witness ==
  /\ Retrieved
  /\ Len(ragResult) = 1
  /\ Length(ragResult[1].content) > ChatMaxTokens * 4
  /\ Len(ragCandidates) >= 2

\* One document chunk at 0.92, one tabular record at 0.81 and one meeting
\* chunk at 0.65, asked with topK 5 and threshold 0.7.
ExampleAnswered ==
  /\ {c.id : c \in chunks} = {"d4c1", "r5", "m3c1"}
  /\ req.query = "Q1" /\ req.partnerId = "p1" /\ req.useRAG /\ req.reject = "none"
  /\ ~ragFailed
  /\ Answered

ExampleCitations ==
  /\ Len(sourceCitations) = 2
  /\ sourceCitations[1].source_id = "d4"
  /\ sourceCitations[1].relevance_score = [dot |-> 92, norms2 |-> 10000]
  /\ sourceCitations[2].source_id = "r5"
  /\ sourceCitations[2].relevance_score = [dot |-> 81, norms2 |-> 10000]

\* C14 as stated: the example gives the two citations in that order and the
\* confidence level high.
C14_ExampleHighConfidence ==
  ExampleAnswered => (ExampleCitations /\ buildConfidence(sourceCitations) = "high")

\* C14: the example gives exactly the citations of the document chunk (0.92)
\* and of the tabular record (0.81), in that order, and the confidence rule
\* gives medium, only one citation reaching 0.85.
C14_ExampleMediumConfidence ==
  ExampleAnswered => (ExampleCitations /\ buildConfidence(sourceCitations) = "medium")

C14_Witness ==
  /\ ExampleAnswered
  /\ Len(answer[1].sources) = 2
  /\ Len(ragCandidates) = 2

\* ------------------------------------------------------------ sync status
\* The status row a run's result calls for.
ExpectedStatusRow ==
  [source |-> "airtable", last_sync |-> now,
   status |-> IF result.success THEN "connected" ELSE "error",
   item_count |-> result.totalRecords,
   last_error |-> IF result.errors = <<>> THEN <<>> ELSE <<Head(result.errors)>>,
   tables_synced |-> Len(result.tables)]

\* C15 as stated: after every sync run the store holds exactly one status row
\* for 'airtable', with that run's record count and first error.
C15_StatusRowAfterEveryRun ==
  pc = "done" =>
    /\ Len(statusRows) = 1
    /\ statusRows[1].item_count = result.totalRecords
    /\ statusRows[1].last_error =
         (IF result.errors = <<>> THEN <<>> ELSE <<Head(result.errors)>>)

\* The run that has just ended got past schema discovery and its status
\* upsert did not fail.
StatusWritten == pc = "done" /\ tIdx > 0 /\ ~statusFailed

\* C15: after every sync run that got past schema discovery and whose status
\* upsert did not fail, the store holds exactly one status row for 'airtable',
\* with that run's record count and first error (null without error). The
\* store never holds more than one such row, and the row changes only by the
\* status upsert of such a run: a run that fails at schema discovery, or whose
\* status upsert fails, leaves the status rows as they were.
C15_OneStatusRowOfLastWrittenRun ==
  /\ [](/\ Len(statusRows) <= 1
        /\ \A i \in 1..Len(statusRows) : statusRows[i].source = "airtable"
        /\ StatusWritten => statusRows = <<ExpectedStatusRow>>)
  /\ [][statusRows' # statusRows =>
          (pc = "status" /\ tIdx > 0 /\ ~statusFailed' /\ statusRows' = <<ExpectedStatusRow>>)]_vars

\* A second run overwrote the first run's row with its own count and error.
C15_Witness ==
  /\ StatusWritten
  /\ prev.done
  /\ prev.clean
  /\ Len(prev.store) > 0
  /\ statusRows = <<ExpectedStatusRow>>
  /\ statusRows[1].last_sync = now
  /\ statusRows[1].item_count = result.totalRecords
  /\ statusRows[1].item_count < Len(prev.store)
  /\ statusRows[1].last_error # <<>>
  /\ statusRows[1].last_error = <<Head(result.errors)>>

\* ------------------------------------------------------------------ push
\* C16: pushToAirtable never throws; with a client it makes exactly one call,
\* an update when a record id is given and a create otherwise, and no second
\* one; it returns success with the record when the call succeeds, and an
\* error when the call fails or the client cannot be constructed.
C16_PushOneCallNeverThrows ==
  /\ ppc \in {"idle", "client", "call", "returned"}
  /\ Len(pushCalls) <= 1
  /\ ppc = "call" => Len(pushCalls) = 1
  /\ \A i \in 1..Len(pushCalls) :
       /\ pushCalls[i].op =
            (IF pushReq[1].recordId \in {<<>>, <<"">>} THEN "createRecord"
             ELSE "updateRecord")
       /\ pushCalls[i].fields = pushReq[1].fields
       /\ pushCalls[i].op = "updateRecord" => pushCalls[i].id = pushReq[1].recordId
  /\ ppc = "returned" =>
       /\ pushResult # <<>>
       /\ Len(pushCalls) = (IF {"AIRTABLE_API_KEY", "AIRTABLE_BASE_ID"} \subseteq env
                            THEN 1 ELSE 0)
       /\ IF pushResult[1].success
          THEN pushResult[1].record # <<>> /\ pushResult[1].error = <<>>
               /\ Len(pushCalls) = 1
          ELSE pushResult[1].record = <<>> /\ pushResult[1].error # <<>>

\* An update failed and the push returned the error after its one call.
C16_Witness ==
  /\ ppc = "returned"
  /\ pushResult[1].success = FALSE
  /\ Len(pushCalls) = 1
  /\ pushCalls[1].op = "updateRecord"

\* --------------------------------------------------------- missing settings
\* C17: when a required setting is missing (the Airtable key or base id, the
\* store's URL or key, the webhook base URL) the operation ends with an error
\* before any external request and before any store row is written; a trigger
\* without base URL makes no HTTP attempt.
C17_MissingConfigFailsFast ==
  /\ env # Settings =>
       /\ pc \in {"idle", "done"}
       /\ requests = <<>>
       /\ store = <<>>
       /\ statusRows = <<>>
       /\ pc = "done" => outcome \in {"thrown", "http500"}
  /\ ~({"AIRTABLE_API_KEY", "AIRTABLE_BASE_ID"} \subseteq env) =>
       /\ pushCalls = <<>>
       /\ ppc \in {"idle", "client", "returned"}
       /\ ppc = "returned" => ~pushResult[1].success
  /\ cfg.baseUrl = "" =>
       /\ tpc \in {"idle", "returned"}
       /\ attempt = 0
       /\ inFlight = 0
       /\ trace = <<>>
       /\ webhook_logs = <<>>
       /\ tpc = "returned" =>
            tResult = [success |-> FALSE, executionId |-> <<>>,
                       error |-> <<"n8n webhook URL not configured">>]

\* syncAllTables was called without the store's key and threw.
C17_Witness ==
  /\ "SUPABASE_SERVICE_ROLE_KEY" \notin env
  /\ opts.impl = "lib"
  /\ pc = "done"
  /\ outcome = "thrown"
  /\ runsLeft = 0

\* ------------------------------------------------- two runs over one table
\* Both runs have finished.
BothDone == \A p \in Syncers : syncers[p].at = "done"

\* The row agrees with the payload on every column the payload has.
Carries(row, payload) == \A c \in DOMAIN payload : row[c] = payload[c]

\* C18: under every interleaving of two sync runs over the same table, with
\* atomic upserts, the store never has two rows with the same (external_id,
\* base_id, table_id), and each key's row is the record written by the run
\* that upserted the key last; so it is when both runs have finished.
C18_ConcurrentLastWriteWins ==
  /\ KeyUnique
  /\ \A i \in 1..Len(store) :
       /\ store[i].external_id \in DOMAIN lastWrite
       /\ lastWrite[store[i].external_id] # <<>>
       /\ lastWrite[store[i].external_id][1].by \in Syncers
       /\ Carries(store[i], lastWrite[store[i].external_id][1].payload)
  /\ \A r \in DOMAIN lastWrite :
       lastWrite[r] # <<>> => \E i \in 1..Len(store) : store[i].external_id = r
  /\ BothDone =>
       \A i \in 1..Len(store) : \E p \in Syncers :
          /\ syncers[p].written > 0
          /\ store[i].fields = syncers[p].records[store[i].external_id].fields

\* Both runs upserted the one record, each with the fields it had fetched,
\* and the row has the older fields because that run wrote last.
C18_Witness ==
  /\ BothDone
  /\ Len(store) = 1
  /\ syncers[1].written = 1 /\ syncers[2].written = 1
  /\ syncers[1].records[1].fields = FieldsOf(0)
  /\ syncers[2].records[1].fields = FieldsOf(1)
  /\ lastWrite[1][1].by = 1
  /\ store[1].fields = syncers[1].records[1].fields

\* ------------------------------------------------------------ frame effect
\* A fetch, an embedding or an upsert fails in this step.
FailureStep == pc \in {"fetch", "embed", "upsert"} /\ tableFaults' # tableFaults

\* C19: a step in which a record's embedding or upsert, or a table's fetch,
\* fails leaves every row of the store as it was; no step removes a row, and
\* a row changes only in the successful upsert of its own key. So rows
\* upserted earlier in the run stay, and the failing record's old row keeps
\* its content.
C19_FailureLeavesRows ==
  [][/\ FailureStep => store' = store
     /\ Len(store') >= Len(store)
     /\ \A i \in 1..Len(store) :
          store'[i] # store[i] =>
            /\ pc = "upsert"
            /\ tableFaults' = tableFaults
            /\ store[i].external_id = CurRecord.id
            /\ store[i].table_id = CurTable]_vars

\* A second run has ended in which a record edited since the first run failed:
\* its row still has the fields and the time of the first run, next to a row
\* the second run did upsert.
C19_Witness ==
  /\ pc = "done" /\ prev.done /\ prev.clean
  /\ \E e \in 1..Len(result.errors) : \E i, j \in 1..Len(store) :
       /\ result.errors[e].rec # 0
       /\ store[i].external_id = result.errors[e].rec
       /\ TableName(store[i].table_id) = result.errors[e].table
       /\ store[i].fields # FieldsOf(src[store[i].table_id][store[i].external_id])
       /\ store[i].synced_at < now
       /\ store[j].synced_at = now

\* ----------------------------------------------------------- calls that hang
\* An HTTP attempt is never pending for longer than the configured timeout
\* and it ends; a call still pending at the timeout is aborted, which counts
\* as a failed attempt: the call is closed, the error is kept, and a backoff
\* follows when attempts remain, else the error row. After a backoff the next
\* attempt is issued.
HungCallsAborted ==
  /\ [](tpc = "request" => elapsed <= cfg.timeout)
  /\ [][(tpc = "request" /\ elapsed >= cfg.timeout /\ tpc' # tpc) =>
          /\ lastError' = <<"aborted">>
          /\ inFlight' = 0
          /\ attempt' = attempt
          /\ tpc' = (IF attempt < cfg.maxRetries THEN "backoff" ELSE "logError")]_vars
  /\ \A n \in 1..(MaxRetriesOption + 1) :
       /\ (tpc = "request" /\ attempt = n) ~> ~(tpc = "request" /\ attempt = n)
       /\ (tpc = "backoff" /\ attempt = n) ~> (tpc = "request" /\ attempt = n + 1)

\* logWebhook is awaited.
InAuditWrite == tpc \in {"logSuccess", "logError"}

\* Every insert that logWebhook awaits comes back, with a row or an error.
AuditWriteComesBack == WF_vars(LogOk \/ LogErr)

\* C20 as stated: every HTTP attempt of trigger ends within the configured
\* timeout, a call that hangs is aborted and counts as a failed attempt, the
\* next attempt is still issued, and a trigger call that has begun returns,
\* also when every call hangs.
C20_HungCallsAbortedTriggerReturns ==
  /\ HungCallsAborted
  /\ (tpc = "request") ~> (tpc = "returned")

\* C20: every HTTP attempt of trigger ends within the configured timeout, a
\* call that hangs is aborted and counts as a failed attempt, and the next
\* attempt is still issued; so a trigger call that has begun reaches its
\* audit write, also when every HTTP call hangs, and it returns provided the
\* audit write, which has no timer, comes back.
C20_HungCallsAbortedAuditAwaited ==
  /\ HungCallsAborted
  /\ (tpc = "request") ~> InAuditWrite
  /\ AuditWriteComesBack => ((tpc = "request") ~> (tpc = "returned"))

\* Every call of a trigger with at least two attempts hung and was aborted,
\* the error row was written and trigger returned the failure.
C20_Witness ==
  /\ tpc = "returned"
  /\ attempt = cfg.maxRetries
  /\ attempt >= 2
  /\ \A i \in Steps("fail") : trace[i].what = "aborted"
  /\ Cardinality(Steps("fail")) = attempt
  /\ Len(webhook_logs) = logsBefore + 1
  /\ tResult = [success |-> FALSE, executionId |-> <<>>, error |-> <<"aborted">>]

\* ------------------------------------------------------ per-table accounting
\* C28: while a fetched table's records are gone through, every record dealt
\* with has left exactly one successful upsert or exactly one error entry; so
\* when the per-table sync returns, synced + errors.length is the number of
\* records fetched.
C28_EachRecordCountedOnce ==
  pc = "records" =>
    /\ rIdx <= Len(allRecords) + 1
    /\ tres.synced + Len(tres.errors) = rIdx - 1
    /\ Len(touched) = rIdx - 1
    /\ \A i, j \in 1..Len(tres.errors) :
         tres.errors[i].rec = tres.errors[j].rec => i = j
    /\ \A i \in 1..Len(tres.errors) :
         \E k \in 1..(rIdx - 1) : allRecords[k].id = tres.errors[i].rec
    /\ rIdx > Len(allRecords) => tres.synced + Len(tres.errors) = Len(allRecords)

\* The per-table sync of a table of two records returns with one record
\* synced and one error, the first record being the one that failed.
C28_Witness ==
  /\ pc = "records"
  /\ Len(allRecords) = 2
  /\ rIdx = 3
  /\ tres.synced = 1
  /\ Len(tres.errors) = 1
  /\ tres.errors[1].rec = allRecords[1].id

\* ------------------------------------------------------------ table entries
\* C29: the returned SyncResult has one tables[] entry per selected table, in
\* schema order; an entry's status is 'success' exactly when the table met no
\* failure in the run; totalRecords is the sum of the entries' synced counts.
C29_OneEntryPerTable ==
  /\ pc \in {"loop", "fetch", "records", "embed", "upsert"} =>
       Len(result.tables) = tIdx - 1
  /\ (pc \in {"status", "done"} /\ tIdx > 0) =>
       /\ Len(result.tables) = Len(FilterTables(opts.tables))
       /\ \A i \in 1..Len(result.tables) :
            /\ result.tables[i].name = TableName(FilterTables(opts.tables)[i])
            /\ (result.tables[i].status = "success") =
                 (tableFaults[FilterTables(opts.tables)[i]] = 0)
            /\ result.tables[i].status \in {"success", "error"}
       /\ result.totalRecords =
            SeqSum([i \in 1..Len(result.tables) |-> result.tables[i].synced])

\* A run returned with both tables selected: the first has a synced record and
\* a failed one and is 'error', the second has no records and is 'success'.
C29_Witness ==
  /\ pc = "done" /\ outcome = "returned"
  /\ Len(result.tables) = 2
  /\ result.tables[1].status = "error"
  /\ result.tables[1].synced > 0
  /\ result.tables[2].status = "success"
  /\ result.tables[2].synced = 0
  /\ result.totalRecords = result.tables[1].synced

\* ------------------------------------------------------- first success ends
\* C30: nothing of the delivery follows a successful response: no POST, no
\* wait; a trigger with a base URL that returned made between 1 and maxRetries
\* POSTs, all of the one event; the success flag is true exactly when an
\* attempt succeeded, and the audit row written for the call has status
\* 'success' then and 'error' otherwise.
C30_StopsAtFirstSuccess ==
  /\ \A i \in Steps("ok") : \A j \in (i + 1)..Len(trace) :
       trace[j].op \in {"log", "logged", "logfail"}
  /\ Cardinality(Steps("ok")) <= 1
  /\ \A i \in Steps("post") : trace[i].what = event.type
  /\ (tpc = "returned" /\ cfg.baseUrl # "") =>
       /\ Cardinality(Steps("post")) >= 1
       /\ Cardinality(Steps("post")) <= cfg.maxRetries
       /\ tResult.success = (Steps("ok") # {})
       /\ Steps("logged") # {} =>
            /\ Len(webhook_logs) = logsBefore + 1
            /\ webhook_logs[Len(webhook_logs)].status \in {"success", "error"}
            /\ tResult.success = (webhook_logs[Len(webhook_logs)].status = "success")
            /\ webhook_logs[Len(webhook_logs)].payload = event

\* ------------------------------------------------------ ranking of results
\* Two similarities are equal.
SimEqual(a, b) == ~SimLess(a, b) /\ ~SimLess(b, a)

\* C24: the retrieval result is one list over the three corpora, sorted by
\* similarity in descending order and cut to the limit; of two results of
\* equal similarity the one with the newer last_updated comes first.
C24_RankedNewerFirstOnTies ==
  /\ Len(ragOut) <= (IF ragCall = <<>> THEN 0 ELSE ragCall[1].max_results)
  /\ \A i, j \in 1..Len(ragOut) :
       i < j =>
         /\ ~SimLess(ragOut[i].similarity, ragOut[j].similarity)
         /\ SimEqual(ragOut[i].similarity, ragOut[j].similarity) =>
              ragOut[i].last_updated >= ragOut[j].last_updated

\* ------------------------------------------------------- tenant isolation
\* The chunks of the tenant the retrieval of this step is made for.
OwnChunks == {c \in chunks : c.partner_id = ragCall'[1].partner}

\* C25: a retrieval for a tenant returns only chunks of that tenant, from
\* whichever corpus, and never a record without embedding; what it returns is
\* a result the tenant's own chunks alone would give.
C25_TenantIsolation ==
  /\ [](ragCall # <<>> =>
          \A i \in 1..Len(ragOut) :
             \E c \in chunks :
                /\ c.id = ragOut[i].content
                /\ c.kind = ragOut[i].source_type
                /\ c.partner_id = ragCall[1].partner
                /\ c.embedding # Null)
  /\ [][(chunks' = chunks /\ ~ragCall'[1].raised) =>
          ragOut' \in get_rag_context(OwnChunks, ragCall'[1].q, ragCall'[1].partner,
                                      ragCall'[1].threshold, ragCall'[1].max_results)]_vars

\* A retrieval for p1 returned its one matching record while a record of p2
\* with the same embedding and a p1 record without embedding are stored.
C25_Witness ==
  /\ ragCall # <<>>
  /\ ragCall[1].partner = "p1"
  /\ {c.id : c \in chunks} = {"r1", "r3", "r4"}
  /\ Len(ragOut) = 1
  /\ ragOut[1].content = "r1"

\* ---------------------------------------------------- one corpus fails
\* C26: when the query against one corpus fails and the others succeed, the
\* retrieval does not fail: it returns the results of the other corpora,
\* merged and ranked as usual.
C26_PartialFailureDegrades ==
  (ragCall # <<>> /\ ragCall[1].broken # {} /\ ragCall[1].broken # Corpora) =>
    /\ ~ragCall[1].raised
    /\ ragOut \in get_rag_context({c \in chunks : c.kind \notin ragCall[1].broken},
                                  ragCall[1].q, ragCall[1].partner,
                                  ragCall[1].threshold, ragCall[1].max_results)

\* ------------------------------------------------- the embedding service
\* A text is a sequence of runs: n copies of the character ch.
MaxTexts == 2

Texts == {<<[ch |-> "a", n |-> 3]>>,
          <<[ch |-> "a", n |-> 2], [ch |-> "\n", n |-> 1], [ch |-> "b", n |-> 1]>>,
          <<[ch |-> "a", n |-> 8001]>>,
          <<[ch |-> " ", n |-> 7999], [ch |-> "\n", n |-> 2]>>}

UpstreamErrors == {"rate limit", "timeout"}

\* One generateEmbedding call: its text, its promise, what upstream raised and
\* what the call threw.
PendingCall(text) ==
  [text |-> text, state |-> "pending", value |-> <<>>, raised |-> <<>>, thrown |-> <<>>]

\* generateEmbeddings(texts): texts.map starts every generateEmbedding, each
\* runs up to its await of embed(), and Promise.all waits for them.
generateEmbeddings ==
  /\ embedJob.batch = <<>>
  /\ \E k \in 0..MaxTexts : \E texts \in [1..k -> Texts] :
       embedJob' =
         [calls    |-> [i \in 1..k |-> PendingCall(texts[i])],
          upstream |-> [i \in 1..k |-> [call |-> i, value |-> processedText(texts[i])]],
          batch    |-> <<[state |-> IF k = 0 THEN "resolved" ELSE "pending",
                          value |-> <<>>, error |-> <<>>]>>]
  /\ UNCHANGED <<maint, maintLeft>>
  /\ UNCHANGED <<syncVars, trigVars, ragVars, chatVars, env, pushVars, concVars>>

\* embed() of call i answers: the call resolves, and Promise.all resolves with
\* the values in order when it was the last one.
UpstreamOk ==
  /\ embedJob.batch # <<>>
  /\ \E i \in 1..Len(embedJob.calls) :
       /\ embedJob.calls[i].state = "pending"
       /\ \E reply \in UpstreamReplies(embedJob.upstream[i].value) :
            LET calls == [embedJob.calls EXCEPT ![i].state = "resolved",
                                               ![i].value = <<EmbeddingResult(reply)>>]
                all   == \A j \in 1..Len(calls) : calls[j].state = "resolved"
            IN embedJob' =
                 [embedJob EXCEPT
                    !.calls = calls,
                    !.batch = IF all /\ @[1].state = "pending"
                              THEN <<[state |-> "resolved",
                                      value |-> [j \in 1..Len(calls) |-> calls[j].value[1]],
                                      error |-> <<>>]>>
                              ELSE @]
  /\ UNCHANGED <<maint, maintLeft>>
  /\ UNCHANGED <<syncVars, trigVars, ragVars, chatVars, env, pushVars, concVars>>

\* A catch that calls embed() once more and keeps waiting.
AfterUpstreamErrRetry(job, i, e) ==
  [job EXCEPT !.upstream = Append(@, [call |-> i, value |-> job.upstream[i].value])]

\* catch (error) { console.error(...); throw error }: the call rejects with
\* what embed() raised, and Promise.all rejects with the first rejection.
AfterUpstreamErr(job, i, e) ==
  [job EXCEPT !.calls[i].state = "rejected",
              !.calls[i].raised = <<e>>,
              !.calls[i].thrown = <<e>>,
              !.batch = IF @[1].state = "pending"
                        THEN <<[state |-> "rejected", value |-> <<>>, error |-> <<e>>]>>
                        ELSE @]

\* embed() of call i raises e.
UpstreamErr ==
  /\ embedJob.batch # <<>>
  /\ \E i \in 1..Len(embedJob.calls), e \in UpstreamErrors :
       /\ embedJob.calls[i].state = "pending"
       /\ embedJob' = AfterUpstreamErr(embedJob, i, e)
  /\ UNCHANGED <<maint, maintLeft>>
  /\ UNCHANGED <<syncVars, trigVars, ragVars, chatVars, env, pushVars, concVars>>

InitEmbed ==
  /\ InitRun({Base([t \in TableSet |-> 0])}, {[impl |-> "lib", embedRecords |-> FALSE,
                                                tables |-> <<>>]}, {{}}, {}, 0, 0)
  /\ TriggerIdle
  /\ RetrievalIdle
  /\ ChatIdle
  /\ EnvConfigured
  /\ PushIdle
  /\ ConcIdle
  /\ MaintIdle

NextEmbed == generateEmbeddings \/ UpstreamOk \/ UpstreamErr

SpecEmbed == InitEmbed /\ [][NextEmbed]_vars

\* C21: a generateEmbedding call makes exactly one upstream call, with the
\* processed text; when that call fails the error thrown is the one upstream
\* raised; and a generateEmbeddings call with a failed member is rejected, with
\* the error of one of its failed members, and resolves only when every member
\* resolved, with their results in order.
C21_OneCallNoRetry ==
  embedJob.batch # <<>> =>
    LET calls == embedJob.calls
        batch == embedJob.batch[1]
        failed == {i \in 1..Len(calls) : calls[i].state = "rejected"}
    IN /\ \A i \in 1..Len(calls) :
            /\ Cardinality({u \in 1..Len(embedJob.upstream) :
                              embedJob.upstream[u].call = i}) = 1
            /\ embedJob.upstream[i].value = processedText(calls[i].text)
            /\ calls[i].state = "rejected" =>
                 calls[i].raised # <<>> /\ calls[i].thrown = calls[i].raised
            /\ calls[i].state = "resolved" =>
                 calls[i].value[1].embedding = <<"vec", processedText(calls[i].text)>>
       /\ failed # {} =>
            /\ batch.state = "rejected"
            /\ batch.error \in {calls[i].thrown : i \in failed}
       /\ batch.state = "resolved" =>
            /\ \A i \in 1..Len(calls) : calls[i].state = "resolved"
            /\ batch.value = [i \in 1..Len(calls) |-> calls[i].value[1]]

\* A batch of two where the first call resolved and the second failed.
C21_Witness ==
  /\ Len(embedJob.calls) = 2
  /\ embedJob.calls[1].state = "resolved"
  /\ embedJob.calls[2].state = "rejected"
  /\ embedJob.calls[2].thrown = <<"timeout">>
  /\ embedJob.batch[1].state = "rejected"
  /\ TextLen(embedJob.calls[1].text) > CharCeiling

\* --------------------------------------- maintenance of the synced records
MaxMaintOps == 1

\* The table names a maintenance call is made with; no table is named "Z".
MaintTables == {"A", "B", "Z"}

\* The errors the store client reports: an Error instance or a plain object.
StoreErrors == [isError : BOOLEAN, message : {"db down"}]

\* error instanceof Error ? error.message : 'Unknown error'
ErrorMessage(e) == IF e.isError THEN e.message ELSE "Unknown error"

\* The rows a finished syncAllTables leaves for the base, with the embedding
\* column set when embedRecords was.
RECURSIVE UpsertAll(_, _)
UpsertAll(rows, payloads) ==
  IF payloads = <<>> THEN rows
  ELSE UpsertAll(Upsert(rows, Head(payloads), OnConflict, RowDefaults), Tail(payloads))

SyncedPayloads(t, embedRecords) ==
  [r \in 1..Len(src[t]) |->
     LibRecordData(t, SourceRecord(t, r),
        IF embedRecords
        THEN generateEmbedding(recordToText(SourceRecord(t, r), TableName(t)), <<>>).embedding
        ELSE <<>>)]

\* A row of table A that another writer stored under its own source tag.
ForeignRow ==
  [id |-> <<"uuid", 0>>, external_id |-> 0, source |-> "manual", base_id |-> BaseId,
   table_id |-> "tblA", table_name |-> "A", fields |-> FieldsOf(0), created_at_source |-> 0,
   synced_at |-> 0, embedding |-> <<>>]

MaintStores ==
  {UpsertAll(pre, SyncedPayloads(TableIds[1], e) \o SyncedPayloads(TableIds[2], e)) :
     pre \in {<<>>, <<ForeignRow>>}, e \in BOOLEAN}

\* .eq('table_name', tableName).eq('source', 'airtable')
OfTable(row, tableName) == row.table_name = tableName /\ row.source = "airtable"

\* A delete scoped by the table name only.
DeleteRowsByTable(rows, tableName) ==
  SelectSeq(rows, LAMBDA row : row.table_name # tableName)

\* .delete().eq('table_name', tableName).eq('source', 'airtable')
DeleteRows(rows, tableName) ==
  SelectSeq(rows, LAMBDA row : ~OfTable(row, tableName))

otherThanMaint == <<syncRest, src, idSeq, faultsLeft, trigVars, ragVars, chatVars, env,
                    pushVars, concVars, embedJob>>

MaintFree == maint.at \in {"idle", "done"} /\ maintLeft > 0

\* deleteSyncedRecords: the delete went through; data holds the removed rows.
DeleteOk ==
  /\ MaintFree
  /\ \E tableName \in MaintTables :
       /\ store' = DeleteRows(store, tableName)
       /\ maint' = [NoMaint EXCEPT !.op = "delete", !.at = "done", !.table = tableName,
                                   !.before = store,
                                   !.ret = <<[deleted |-> Len(store) - Len(store'),
                                              error |-> <<>>]>>]
  /\ maintLeft' = maintLeft - 1
  /\ UNCHANGED now
  /\ UNCHANGED otherThanMaint

\* deleteSyncedRecords: the store reported an error.
DeleteErr ==
  /\ MaintFree
  /\ \E tableName \in MaintTables, e \in StoreErrors :
       maint' = [NoMaint EXCEPT !.op = "delete", !.at = "done", !.table = tableName,
                                !.before = store,
                                !.ret = <<[deleted |-> 0, error |-> <<ErrorMessage(e)>>]>>]
  /\ maintLeft' = maintLeft - 1
  /\ UNCHANGED <<store, now>>
  /\ UNCHANGED otherThanMaint

\* reembedTable: the select answered with the table's rows.
ReembedRead ==
  /\ MaintFree
  /\ \E tableName \in MaintTables :
       maint' = [NoMaint EXCEPT !.op = "reembed", !.at = "loop", !.table = tableName,
                                !.readOk = TRUE,
                                !.records = SelectSeq(store, LAMBDA row : OfTable(row, tableName)),
                                !.idx = 1,
                                !.result = [updated |-> 0, errors |-> <<>>],
                                !.before = store]
  /\ maintLeft' = maintLeft - 1
  /\ now' = now + 1
  /\ UNCHANGED store
  /\ UNCHANGED otherThanMaint

\* reembedTable: the select failed; the outer catch records it.
ReembedReadErr ==
  /\ MaintFree
  /\ \E tableName \in MaintTables, e \in StoreErrors :
       LET res == [updated |-> 0,
                   errors |-> <<[kind |-> "Re-embed failed", rec |-> <<>>,
                                 message |-> ErrorMessage(e)]>>]
       IN maint' = [NoMaint EXCEPT !.op = "reembed", !.at = "done", !.table = tableName,
                                   !.result = res, !.before = store, !.ret = <<res>>]
  /\ maintLeft' = maintLeft - 1
  /\ UNCHANGED <<store, now>>
  /\ UNCHANGED otherThanMaint

MaintRecord == maint.records[maint.idx]

\* The loop is at a record and waits for generateEmbedding.
InLoop == maint.op = "reembed" /\ maint.at = "loop" /\ maint.idx <= Len(maint.records)

\* The loop has sent the update of the record and waits for the store.
InUpdate == maint.op = "reembed" /\ maint.at = "update"

\* A record failure that ends the loop.
AfterRecordErrStops(mt, message) ==
  [mt EXCEPT !.result.errors = Append(@, [kind |-> "Failed to re-embed record",
                                         rec |-> <<mt.records[mt.idx].id>>,
                                         message |-> message]),
             !.at = "loop", !.payload = <<>>,
             !.idx = Len(mt.records) + 1]

\* The inner catch: the error is pushed and the loop goes on.
AfterRecordErr(mt, message) ==
  [mt EXCEPT !.result.errors = Append(@, [kind |-> "Failed to re-embed record",
                                         rec |-> <<mt.records[mt.idx].id>>,
                                         message |-> message]),
             !.at = "loop", !.payload = <<>>,
             !.idx = @ + 1]

\* reembedTable: generateEmbedding threw for the record.
ReembedEmbedErr ==
  /\ InLoop
  /\ \E e \in UpstreamErrors : maint' = AfterRecordErr(maint, e)
  /\ UNCHANGED <<store, now, maintLeft>>
  /\ UNCHANGED otherThanMaint

\* An object value of a column is written here as the tuple of a tag and its
\* members, a vector being a tuple of two.
ObjectValue(obj) == <<"object", obj.embedding, obj.tokenCount>>

\* The payload of the update: the constant `embedding` holds what
\* generateEmbedding returned, synced_at the time read when it is built.
ReembedPayload(record, usage, time) ==
  [embedding |-> ObjectValue(generateEmbedding(recordToText(
                   [id |-> record.external_id, createdTime |-> record.created_at_source,
                    fields |-> record.fields], record.table_name), usage)),
   synced_at |-> time]

\* .update(payload).eq('id', id)
UpdateById(rows, id, payload) ==
  [i \in 1..Len(rows) |->
     IF rows[i].id = id
     THEN [c \in RowCols |-> IF c \in DOMAIN payload THEN payload[c] ELSE rows[i][c]]
     ELSE rows[i]]

\* The token counts the upstream reports for a text, <<>> for none.
Usages(text) == {<<>>, <<TextLen(processedText(text))>>}

\* reembedTable: generateEmbedding answered after a while; the clock is read,
\* the payload is built and the update is sent.
ReembedEmbedOk ==
  /\ InLoop
  /\ now' = now + 1
  /\ \E usage \in Usages(recordToText([fields |-> MaintRecord.fields], MaintRecord.table_name)) :
       maint' = [maint EXCEPT !.at = "update",
                              !.payload = <<ReembedPayload(MaintRecord, usage, now')>>]
  /\ UNCHANGED <<store, maintLeft>>
  /\ UNCHANGED otherThanMaint

\* reembedTable: the store took the update of the record.
ReembedUpdateOk ==
  /\ InUpdate
  /\ store' = UpdateById(store, MaintRecord.id, maint.payload[1])
  /\ maint' = [maint EXCEPT !.result.updated = @ + 1,
                            !.updatedIds = @ \cup {MaintRecord.id},
                            !.at = "loop", !.payload = <<>>,
                            !.idx = @ + 1]
  /\ UNCHANGED <<now, maintLeft>>
  /\ UNCHANGED otherThanMaint

\* reembedTable: the store refused the update of the record.
ReembedUpdateErr ==
  /\ InUpdate
  /\ \E e \in StoreErrors : maint' = AfterRecordErr(maint, ErrorMessage(e))
  /\ UNCHANGED <<store, now, maintLeft>>
  /\ UNCHANGED otherThanMaint

\* reembedTable: the loop is over, the result is returned.
ReembedReturn ==
  /\ maint.op = "reembed" /\ maint.at = "loop" /\ maint.idx > Len(maint.records)
  /\ maint' = [maint EXCEPT !.at = "done", !.ret = <<maint.result>>]
  /\ UNCHANGED <<store, now, maintLeft>>
  /\ UNCHANGED otherThanMaint

InitMaint ==
  /\ InitRunOver(MaintStores,
                 {Base(f) : f \in {g \in [TableSet -> SmallSizes] : g["tblB"] <= 1}},
                 {[impl |-> "lib", embedRecords |-> FALSE, tables |-> <<>>]},
                 {{}}, {}, 0, 0)
  /\ TriggerIdle
  /\ RetrievalIdle
  /\ ChatIdle
  /\ EnvConfigured
  /\ PushIdle
  /\ ConcIdle
  /\ embedJob = NoEmbedJob
  /\ maint = NoMaint
  /\ maintLeft = MaxMaintOps

NextMaint ==
  \/ DeleteOk
  \/ DeleteErr
  \/ ReembedRead
  \/ ReembedReadErr
  \/ ReembedEmbedErr
  \/ ReembedEmbedOk
  \/ ReembedUpdateOk
  \/ ReembedUpdateErr
  \/ ReembedReturn

SpecMaint == InitMaint /\ [][NextMaint]_vars

\* The rows of a store outside table T, in order.
OtherTables(rows, tableName) == SelectSeq(rows, LAMBDA row : row.table_name # tableName)

\* C22: after deleteSyncedRecords(T) returned without an error, the store is
\* what it was without its rows of table T tagged 'airtable', the count
\* returned is the number of rows removed, and the rows of the other tables
\* are as they were; after it returned an error, deleted is 0, the error
\* message is returned, and the store is as it was.
C22_DeleteScoped ==
  (maint.op = "delete" /\ maint.at = "done") =>
    LET T      == maint.table
        before == maint.before
        gone   == {i \in 1..Len(before) :
                     before[i].table_name = T /\ before[i].source = "airtable"}
        r      == maint.ret[1]
    IN IF r.error = <<>>
       THEN /\ Len(store) = Len(before) - Cardinality(gone)
            /\ r.deleted = Cardinality(gone)
            /\ \A i \in 1..Len(store) :
                 ~(store[i].table_name = T /\ store[i].source = "airtable")
            /\ \A i \in 1..Len(before) :
                 i \notin gone => \E j \in 1..Len(store) : store[j] = before[i]
            /\ OtherTables(store, T) = OtherTables(before, T)
       ELSE /\ r.deleted = 0
            /\ r.error \in {<<ErrorMessage(e)>> : e \in StoreErrors}
            /\ store = before

\* A delete on table A removed its synced rows and left the row of another
\* source and the row of table B.
C22_Witness ==
  /\ maint.op = "delete" /\ maint.at = "done" /\ maint.table = "A"
  /\ maint.ret[1].error = <<>>
  /\ maint.ret[1].deleted = 2
  /\ \E i \in 1..Len(store) : store[i].table_name = "A" /\ store[i].source = "manual"
  /\ \E i \in 1..Len(store) : store[i].table_name = "B"

\* A row without the two columns the re-embed writes.
Kept(row) == [c \in RowCols \ {"embedding", "synced_at"} |-> row[c]]

\* C23: reembedTable(T) whose read succeeded reads every stored 'airtable' row
\* of T, has accounted for each record it is past either in updated or in
\* errors, so that on return updated + errors.length is the number of records
\* read, and it leaves the rows of the store and their columns other than
\* embedding and synced_at as they were.
C23_ReembedIsolation ==
  (maint.op = "reembed" /\ maint.readOk) =>
    /\ maint.records = SelectSeq(maint.before, LAMBDA row :
                          row.table_name = maint.table /\ row.source = "airtable")
    /\ maint.result.updated + Len(maint.result.errors) = maint.idx - 1
    /\ maint.at = "done" =>
         /\ maint.ret = <<maint.result>>
         /\ maint.ret[1].updated + Len(maint.ret[1].errors) = Len(maint.records)
    /\ Len(store) = Len(maint.before)
    /\ \A i \in 1..Len(store) :
         /\ Kept(store[i]) = Kept(maint.before[i])
         /\ (store[i].table_name # maint.table \/ store[i].source # "airtable")
              => store[i] = maint.before[i]

\* A re-embed of two records returned after the first one failed and the
\* second one was updated.
C23_Witness ==
  /\ maint.op = "reembed" /\ maint.at = "done" /\ maint.readOk
  /\ Len(maint.records) = 2
  /\ maint.ret[1].updated = 1
  /\ Len(maint.ret[1].errors) = 1
  /\ maint.ret[1].errors[1].rec = <<maint.records[1].id>>
  /\ maint.records[2].id \in maint.updatedIds

\* C27: a row that reembedTable updated holds in its embedding column the
\* vector generateEmbedding returns for the row's text, the value syncTable
\* stores for it when embedRecords is set.
C27_ReembedStoresVector ==
  maint.op = "reembed" =>
    \A i \in 1..Len(store) :
      store[i].id \in maint.updatedIds =>
        store[i].embedding =
          generateEmbedding(recordToText(
            [id |-> store[i].external_id, createdTime |-> store[i].created_at_source,
             fields |-> store[i].fields], store[i].table_name), <<>>).embedding

============================================================================
